---- MODULE Spec2Model ----
(***************************************************************************)
(* Verification model of the portfolio site's client-side state machines:  *)
(*   - the breakpoint tracker  (src/lib/createDeviceSize.ts, two revisions) *)
(*   - the CardNav expand/collapse controller (components/ui/card-nav.tsx   *)
(*     and the earlier components/card-nav.tsx)                             *)
(*   - the scroll-linked background controller                              *)
(*     (components/ui/background-gradient-switch.tsx, two revisions)        *)
(*   - the pill sandboxes (components/ui/pill-sandbox.tsx and its           *)
(*     rapier2d, matter-js and p2-es revisions)                             *)
(***************************************************************************)
EXTENDS Integers, Sequences, FiniteSets, TLC

VARIABLES
    \* ---- pure-function harness (getDeviceState / compare) ----
    fnWidth,        \* the viewport width handed to getDeviceState
    fnState,        \* what getDeviceState returned for it
    fnCompare,      \* the last compare(op, bp) call and its result
    \* ---- breakpoint tracker (one createDeviceSize instance) ----
    revision,       \* which createDeviceSize source the instance runs
    isServer,       \* solid-js/web isServer
    win,            \* window: [defined, w, h]
    resizeQueued,   \* the viewport changed and its resize event is not dispatched yet
    size,           \* signal: debounced width
    height,         \* signal: debounced height
    breakpoint,     \* signal: breakpoint name
    debounceTimer,  \* the handle kept in `let debounceTimer` (0 = undefined)
    timers,         \* pending setTimeout callbacks: set of [id, elapsed]
    listeners,      \* how many times handleResize is registered on window 'resize'
    phase,          \* "created" | "mounted" | "disposed"
    threw,          \* getDeviceState raised (window read while undefined)
    \* ---- observers of the tracker's history ----
    lastOp,         \* the operation that produced this state
    sinceResize,    \* ms since handleResize last ran (saturates at debounceMs)
    dirty,          \* a resize event was handled since the last commit
    commits,        \* timer commits since handleResize last ran
    \* ---- CardNav (one component instance) ----
    navRevision,    \* "ui" = components/ui/card-nav.tsx, "components" = components/card-nav.tsx
    controlled,     \* props.isOpen is supplied ("ui" only)
    propOpen,       \* what props.isOpen() returns
    internalOpen,   \* signal ("ui")
    isHamburgerOpen,\* signal ("components")
    isExpanded,     \* signal: the content container is visible
    timeline,       \* the gsap timeline held in `let timeline`
    navHeight,      \* inline height of the <nav> element
    navBreakpoint,  \* device.breakpoint() as seen by the component
    contentHeight,  \* the scrollHeight the mobileHeight memo measured
    scrollHeight,   \* the scrollHeight the content element has now
    navPhase,       \* "rendered" | "mounted" | "disposed"
    \* ---- observers of the CardNav history ----
    navLastOp,      \* the operation that produced this state
    scenario,       \* progress of the open-then-close-at-once scenario
    \* ---- BgController (one component instance and its BgContainer children) ----
    bgRevision,     \* "rect" = first BgController of the file, "docpos" = the optimized one
    defaultBg,      \* props.defaultBg ("" = not supplied), the same for the whole run
    triggers,       \* signal: the registered TriggerData, in registration order
    effectTimeoutId,\* the handle kept in `let effectTimeoutId` (0 = undefined)
    bgTimers,       \* pending setTimeout(..., 0) callbacks with what their closure captured
    allScrollTriggers, \* `let allScrollTriggers`: handles of the ScrollTriggers last created
    scrollTriggers, \* the ScrollTrigger instances that are alive (created and not killed)
    gradient,       \* colours the background layer was last sent to: [start, end]
    scrollY,        \* how many section start lines the scroll position is past
    bgPhase,        \* "mounted" | "disposed"
    \* ---- observers of the BgController history ----
    changesPending, \* registry changes no executed rebuild has covered yet (2 = two or more)
    coalesced,      \* registry changes the last executed rebuild covered (2 = two or more)
    rebuildsSince,  \* rebuild callbacks executed since the registry last changed
    \* ---- PillSandbox (one component instance) ----
    sbRevision,     \* which physics engine the sandbox source uses
    containerRef,   \* the container <div> ref is set
    clientSize,     \* [w, h]: the container's clientWidth / clientHeight
    pillCount,      \* pillRefs.length: one ref per tag
    inits,          \* every initialisation started so far, oldest first
    sbPhase,        \* "created" | "mounted" | "unmounted"
    \* ---- observers of the pointer and the loop ----
    downOver,       \* the pills whose hit region the pointer went down in ({} = none, or released since)
    stopped,        \* the bodies whose velocity the last pointer-down overwrote with zero
    pointerPos,     \* where the pointer was at its last down or move event (0 = never)
    applied,        \* the drag the last animation frame applied: [init, body, target]
    \* ---- morphing Card (one component instance of cool-morph-cards.tsx) ----
    mcHasIsOpen,    \* props.isOpen !== undefined
    mcPropIsOpen,   \* the value of props.isOpen when supplied
    mcHasOnOpenChange, \* props.onOpenChange is supplied
    mcInternalOpen, \* signal internalOpen
    mcContainerRef, \* the container <div> ref is set
    mcFrames,       \* requestAnimationFrame callbacks of toggle() not run yet
    mcNotified,     \* what onOpenChange was last called with ("none" = never)
    mcPhase,        \* "created" | "mounted" | "unmounted"
    \* ---- observer of the Card history ----
    mcToggles,      \* toggle() calls so far
    \* ---- the animation loop of one sandbox initialisation, callback by callback ----
    lpRevision,     \* which physics engine the sandbox source uses
    lpPhase,        \* "built" (world and bodies exist, loop not started) | "running"
    lpRequested,    \* requestAnimationFrame callbacks waiting for the next frame, in request order
    lpFrameQueue,   \* callbacks of the frame under way that have not run yet
    lpFrames,       \* animation frames the browser has started
    lpSteps,        \* world steps made so far
    lpFrameSteps,   \* world steps made since the frame (or the start-up call) began
    lpSynced,       \* executions of the loop that wrote the pills' transforms
    lpShown,        \* how many world steps the transforms last written reflect
    \* ---- the visual tilt of one pill ----
    tiltRevision,   \* which physics engine the sandbox source uses
    pillRotation,   \* pill.rotation / visual.currentRotation, in hundredths of a radian
    pillVelX,       \* the horizontal velocity the loop last read from the body
    tiltSynced      \* the loop has written this pill's transform at least once

fnVars == <<fnWidth, fnState, fnCompare>>
devVars == <<revision, isServer, win, resizeQueued, size, height, breakpoint,
             debounceTimer, timers, listeners, phase, threw,
             lastOp, sinceResize, dirty, commits>>
navVars == <<navRevision, controlled, propOpen, internalOpen, isHamburgerOpen,
             isExpanded, timeline, navHeight, navBreakpoint, contentHeight,
             scrollHeight,
             navPhase, navLastOp, scenario>>
bgVars == <<bgRevision, defaultBg, triggers, effectTimeoutId, bgTimers,
            allScrollTriggers, scrollTriggers, gradient, scrollY, bgPhase,
            changesPending, coalesced, rebuildsSince>>
sbVars == <<sbRevision, containerRef, clientSize, pillCount, inits, sbPhase,
            downOver, stopped, pointerPos, applied>>
mcVars == <<mcHasIsOpen, mcPropIsOpen, mcHasOnOpenChange, mcInternalOpen,
            mcContainerRef, mcFrames, mcNotified, mcPhase, mcToggles>>
lpVars == <<lpRevision, lpPhase, lpRequested, lpFrameQueue, lpFrames, lpSteps,
            lpFrameSteps, lpSynced, lpShown>>
tiltVars == <<tiltRevision, pillRotation, pillVelX, tiltSynced>>
vars == <<fnVars, devVars, navVars, bgVars, sbVars, mcVars, lpVars, tiltVars>>
notFn == <<devVars, navVars, bgVars, sbVars, mcVars, lpVars, tiltVars>>
notDev == <<fnVars, navVars, bgVars, sbVars, mcVars, lpVars, tiltVars>>
notNav == <<fnVars, devVars, bgVars, sbVars, mcVars, lpVars, tiltVars>>
notBg == <<fnVars, devVars, navVars, sbVars, mcVars, lpVars, tiltVars>>
notSb == <<fnVars, devVars, navVars, bgVars, mcVars, lpVars, tiltVars>>
notMc == <<fnVars, devVars, navVars, bgVars, sbVars, lpVars, tiltVars>>
notLp == <<fnVars, devVars, navVars, bgVars, sbVars, mcVars, tiltVars>>
notTilt == <<fnVars, devVars, navVars, bgVars, sbVars, mcVars, lpVars>>

(***************************************************************************)
(* Bounds of the model                                                     *)
(***************************************************************************)
MaxWidth == 1600
TickMs == 50
MaxTimers == 3
TimelineSteps == 3

(***************************************************************************)
(* createDeviceSize.ts: breakpoint tables                                  *)
(***************************************************************************)
\* Object.entries(BREAKPOINTS): string keys, in insertion order
BREAKPOINTS ==
    << <<"2xl", 1536>>, <<"xl", 1280>>, <<"lg", 1024>>,
       <<"md", 768>>, <<"sm", 640>>, <<"base", 0>> >>

BREAKPOINT_ORDER == <<"base", "sm", "md", "lg", "xl", "2xl">>

DeviceSize == {BREAKPOINTS[i][1] : i \in 1..Len(BREAKPOINTS)}

debounceMs == 100

\* Array.prototype.sort with comparator (a, b) => b - a: a stable descending sort
RECURSIVE InsertDesc(_, _)
InsertDesc(e, s) ==
    IF s = <<>> THEN <<e>>
    ELSE IF Head(s)[2] - e[2] < 0 THEN <<e>> \o s
    ELSE <<Head(s)>> \o InsertDesc(e, Tail(s))

RECURSIVE SortDesc(_)
SortDesc(s) ==
    IF s = <<>> THEN <<>>
    ELSE InsertDesc(s[Len(s)], SortDesc(SubSeq(s, 1, Len(s) - 1)))

sortedBreakpoints == SortDesc(BREAKPOINTS)

\* the for-loop of getDeviceState: first entry with width >= minWidth, else 'base'
RECURSIVE FirstMatch(_, _)
FirstMatch(width, i) ==
    IF i > Len(sortedBreakpoints) THEN "base"
    ELSE IF width >= sortedBreakpoints[i][2] THEN sortedBreakpoints[i][1]
    ELSE FirstMatch(width, i + 1)

\* mutant: strict comparison in the loop
getDeviceState_strict(server, window) ==
    IF server THEN [width |-> 0, height |-> 0, size |-> "base", threw |-> FALSE]
    ELSE IF ~window.defined
         THEN [width |-> 0, height |-> 0, size |-> "base", threw |-> TRUE]
    ELSE LET S == {i \in 1..Len(sortedBreakpoints) : window.w > sortedBreakpoints[i][2]}
         IN [width |-> window.w, height |-> window.h,
             size |-> IF S = {} THEN "base"
                      ELSE sortedBreakpoints[CHOOSE i \in S : \A j \in S : i <= j][1],
             threw |-> FALSE]

\* mutant: no isServer guard
getDeviceState_noGuard(server, window) ==
    IF ~window.defined
    THEN [width |-> 0, height |-> 0, size |-> "base", threw |-> TRUE]
    ELSE [width |-> window.w, height |-> window.h,
          size |-> FirstMatch(window.w, 1), threw |-> FALSE]

\* getDeviceState(); reading window.innerWidth with no window raises
getDeviceState(server, window) ==
    IF server THEN [width |-> 0, height |-> 0, size |-> "base", threw |-> FALSE]
    ELSE IF ~window.defined
         THEN [width |-> 0, height |-> 0, size |-> "base", threw |-> TRUE]
    ELSE [width |-> window.w, height |-> window.h,
          size |-> FirstMatch(window.w, 1), threw |-> FALSE]

\* Array.prototype.indexOf, zero-based, -1 when absent
RECURSIVE indexOfFrom(_, _, _)
indexOfFrom(s, x, i) ==
    IF i > Len(s) THEN -1
    ELSE IF s[i] = x THEN i - 1
    ELSE indexOfFrom(s, x, i + 1)

indexOf(s, x) == indexOfFrom(s, x, 1)

Operators == {"<", ">", "<=", ">=", "==="}

\* mutant: '<=' answered like '<'
compare_slip(current, op, bp) ==
    LET currentIndex == indexOf(BREAKPOINT_ORDER, current)
        targetIndex == indexOf(BREAKPOINT_ORDER, bp)
    IN IF op = "<" THEN currentIndex < targetIndex
       ELSE IF op = ">" THEN currentIndex > targetIndex
       ELSE IF op = "<=" THEN currentIndex < targetIndex
       ELSE IF op = ">=" THEN currentIndex >= targetIndex
       ELSE currentIndex = targetIndex

\* compare(op, bp) with breakpoint() = current
compare(current, op, bp) ==
    LET currentIndex == indexOf(BREAKPOINT_ORDER, current)
        targetIndex == indexOf(BREAKPOINT_ORDER, bp)
    IN IF op = "<" THEN currentIndex < targetIndex
       ELSE IF op = ">" THEN currentIndex > targetIndex
       ELSE IF op = "<=" THEN currentIndex <= targetIndex
       ELSE IF op = ">=" THEN currentIndex >= targetIndex
       ELSE currentIndex = targetIndex

(***************************************************************************)
(* card-nav.tsx: constants and the gsap timeline                            *)
(***************************************************************************)
TOP_BAR_HEIGHT == 60
PADDING == 16
DESKTOP_HEIGHT == 260

NavRevisions == {"ui", "components"}
ContentHeights == {0, 136, 300}

\* `let timeline` before onMount has run
NoTimeline ==
    [defined |-> FALSE, alive |-> FALSE, time |-> 0, paused |-> TRUE,
     reversed |-> FALSE, target |-> 0, onReverseComplete |-> FALSE]

\* the component is parked while another part of the model is exercised
NavIdle ==
    /\ navRevision = "ui" /\ controlled = FALSE /\ propOpen = FALSE
    /\ internalOpen = FALSE /\ isHamburgerOpen = FALSE /\ isExpanded = FALSE
    /\ timeline = NoTimeline /\ navHeight = TOP_BAR_HEIGHT
    /\ navBreakpoint = "base" /\ contentHeight = 0 /\ scrollHeight = 0
    /\ navPhase = "rendered" /\ navLastOp = "init" /\ scenario = "none"

(***************************************************************************)
(* background-gradient-switch.tsx: colours                                  *)
(***************************************************************************)
BgRevisions == {"rect", "docpos"}

RgbaColor(r, g, b, a) == [r |-> r, g |-> g, b |-> b, a |-> a]
TRANSPARENT_BLACK == RgbaColor(0, 0, 0, 0)

\* the background layer's CSS variables before any gsap.to: all 0
InitialGradient == [start |-> TRANSPARENT_BLACK, end |-> TRANSPARENT_BLACK]

\* the component is parked while another part of the model is exercised
BgIdle ==
    /\ bgRevision = "rect" /\ defaultBg = "" /\ triggers = <<>>
    /\ effectTimeoutId = 0 /\ bgTimers = {} /\ allScrollTriggers = <<>>
    /\ scrollTriggers = {} /\ gradient = InitialGradient /\ scrollY = 0
    /\ bgPhase = "disposed" /\ changesPending = 0 /\ coalesced = 0
    /\ rebuildsSince = 0

(***************************************************************************)
(* pill sandboxes: what is parked                                           *)
(***************************************************************************)
NoDrag == [init |-> 0, body |-> 0, target |-> 0]

\* the component is parked while another part of the model is exercised
SbIdle ==
    /\ sbRevision = "planck" /\ containerRef = FALSE
    /\ clientSize = [w |-> 0, h |-> 0] /\ pillCount = 0
    /\ inits = <<>> /\ sbPhase = "unmounted"
    /\ downOver = {} /\ stopped = {} /\ pointerPos = 0 /\ applied = NoDrag

\* the morphing Card is parked while another part of the model is exercised
McIdle ==
    /\ mcHasIsOpen = FALSE /\ mcPropIsOpen = FALSE /\ mcHasOnOpenChange = FALSE
    /\ mcInternalOpen = FALSE /\ mcContainerRef = FALSE /\ mcFrames = 0
    /\ mcNotified = "none" /\ mcPhase = "created" /\ mcToggles = 0

\* the callback-level loop is parked while another part of the model is exercised
LpIdle ==
    /\ lpRevision = "planck" /\ lpPhase = "built"
    /\ lpRequested = <<>> /\ lpFrameQueue = <<>>
    /\ lpFrames = 0 /\ lpSteps = 0 /\ lpFrameSteps = 0
    /\ lpSynced = 0 /\ lpShown = 0

\* the tilt of the pill is parked while another part of the model is exercised
TiltIdle ==
    /\ tiltRevision = "planck" /\ pillRotation = 0 /\ pillVelX = 0
    /\ tiltSynced = FALSE

(***************************************************************************)
(* Pure-function harness: getDeviceState and compare on arbitrary inputs   *)
(***************************************************************************)
ClientWindow(w, h) == [defined |-> TRUE, w |-> w, h |-> h]
NoWindow == [defined |-> FALSE, w |-> 0, h |-> 0]

NoCompare == [op |-> "none", bp |-> "base", result |-> FALSE]

\* the tracker is parked while the pure functions are exercised
DevIdle ==
    /\ revision = "lib" /\ isServer = FALSE /\ win = ClientWindow(0, 0)
    /\ resizeQueued = FALSE /\ size = 0 /\ height = 0 /\ breakpoint = "base"
    /\ debounceTimer = 0 /\ timers = {} /\ listeners = 0
    /\ phase = "created" /\ threw = FALSE
    /\ lastOp = "init" /\ sinceResize = debounceMs /\ dirty = FALSE /\ commits = 0

FnIdle ==
    /\ fnWidth = 0
    /\ fnState = getDeviceState(FALSE, ClientWindow(0, 0))
    /\ fnCompare = NoCompare

FnInit ==
    /\ fnWidth \in 0..MaxWidth
    /\ fnState = getDeviceState(FALSE, ClientWindow(fnWidth, 0))
    /\ fnCompare = NoCompare
    /\ DevIdle /\ NavIdle /\ BgIdle /\ SbIdle /\ McIdle /\ LpIdle /\ TiltIdle

\* the viewport is dragged to the adjacent width w and getDeviceState() is called
Classify(w) ==
    /\ fnWidth' = w
    /\ fnState' = getDeviceState(FALSE, ClientWindow(w, 0))
    /\ fnCompare' = NoCompare
    /\ UNCHANGED notFn

\* compare(op, bp) is called while breakpoint() is the classified size
Compare(op, bp) ==
    /\ fnCompare' = [op |-> op, bp |-> bp, result |-> compare(fnState.size, op, bp)]
    /\ UNCHANGED <<fnWidth, fnState>>
    /\ UNCHANGED notFn

FnNext ==
    \/ \E w \in {fnWidth - 1, fnWidth + 1} \cap (0..MaxWidth) : Classify(w)
    \/ \E op \in Operators, bp \in DeviceSize : Compare(op, bp)

FnSpec == FnInit /\ [][FnNext]_vars


(***************************************************************************)
(* createDeviceSize: one tracker instance under viewport changes, resize   *)
(* events, timer expiry and scope disposal.  revision "lib" is             *)
(* src/lib/createDeviceSize.ts, revision "alt" is the revision of the same *)
(* file that checks the breakpoint inside the resize handler.              *)
(***************************************************************************)
Revisions == {"lib", "alt"}
TrackerWidths == {500, 639, 640, 1024, 1366}
TrackerHeights == {600, 900}

Min2(a, b) == IF a < b THEN a ELSE b

TimerIds(ts) == {t.id : t \in ts}

\* clearTimeout(handle): a no-op for an undefined, fired or cleared handle
clearTimeout(handle, ts) == {t \in ts : t.id # handle}

\* setTimeout returns a handle that is in use by no pending timer and differs
\* from the one the caller still holds
FreshId(ts, held) ==
    CHOOSE i \in 1..(MaxTimers + 1) :
        /\ i \notin TimerIds(ts) \cup {held}
        /\ \A j \in 1..(MaxTimers + 1) :
              j \notin TimerIds(ts) \cup {held} => i <= j

\* mutant: the pending timer is not cleared before a new one is set
RearmTimer_noClear(held, ts) ==
    ts \cup {[id |-> FreshId(ts, held), elapsed |-> 0]}

\* handleResize: clearTimeout(debounceTimer); debounceTimer = setTimeout(..., debounceMs)
RearmTimer(held, ts) ==
    LET cleared == clearTimeout(held, ts)
    IN cleared \cup {[id |-> FreshId(cleared, held), elapsed |-> 0]}

\* mutant: the handler of either revision leaves the breakpoint to the timer
ImmediateBreakpoint_none(rev, current, st) == current

\* handleResize, first statement: revision "alt" publishes the new class at once
\* when it differs; revision "lib" has no such statement
ImmediateBreakpoint(rev, current, st) ==
    IF rev = "alt"
    THEN IF st.size # current THEN st.size ELSE current
    ELSE current

\* mutant: the timer callback commits the dimensions but not the breakpoint
debounceCallback_noBreakpoint(rev, current, st) ==
    [size |-> st.width, height |-> st.height, breakpoint |-> current]

\* the setTimeout callback: setSize, setHeight, then the breakpoint
\* ("lib": setBreakpoint; "alt": setBreakpoint when it differs)
debounceCallback(rev, current, st) ==
    [size |-> st.width, height |-> st.height,
     breakpoint |-> IF rev = "alt"
                    THEN IF st.size # current THEN st.size ELSE current
                    ELSE st.size]

\* mutant: onCleanup removes the listener but leaves the timer pending
cleanupTimers_leak(held, ts) == ts

\* onCleanup: clearTimeout(debounceTimer)
cleanupTimers(held, ts) == clearTimeout(held, ts)

DevInit ==
    /\ revision \in Revisions
    /\ isServer \in BOOLEAN
    /\ \E w \in TrackerWidths, h \in TrackerHeights :
          win = IF isServer THEN NoWindow ELSE ClientWindow(w, h)
    /\ resizeQueued = FALSE
    \* const initialState = getDeviceState(); createSignal(initialState.*)
    /\ size = getDeviceState(isServer, win).width
    /\ height = getDeviceState(isServer, win).height
    /\ breakpoint = getDeviceState(isServer, win).size
    /\ threw = getDeviceState(isServer, win).threw
    /\ debounceTimer = 0
    /\ timers = {}
    /\ listeners = 0
    /\ phase = "created"
    /\ lastOp = "init" /\ sinceResize = debounceMs /\ dirty = FALSE /\ commits = 0
    /\ FnIdle /\ NavIdle /\ BgIdle /\ SbIdle /\ McIdle /\ LpIdle /\ TiltIdle

\* onMount (runs on the client only, in the task that created the tracker)
Mount ==
    /\ phase = "created" /\ ~isServer
    /\ phase' = "mounted"
    /\ LET st == getDeviceState(isServer, win)
       IN IF revision = "lib"
          THEN /\ size' = st.width /\ height' = st.height /\ breakpoint' = st.size
               /\ threw' = (threw \/ st.threw)
          ELSE UNCHANGED <<size, height, breakpoint, threw>>
    \* addEventListener: the same callback is registered at most once
    /\ listeners' = IF listeners = 0 THEN 1 ELSE listeners
    /\ lastOp' = "mount"
    /\ UNCHANGED <<revision, isServer, win, resizeQueued, debounceTimer, timers,
                   sinceResize, dirty, commits>>
    /\ UNCHANGED notDev

\* the user resizes the browser window; the browser will dispatch a resize event
SetViewport(w, h) ==
    /\ ~isServer /\ phase # "created"
    /\ win # ClientWindow(w, h)
    /\ win' = ClientWindow(w, h)
    /\ resizeQueued' = TRUE
    /\ lastOp' = "viewport"
    /\ UNCHANGED <<revision, isServer, size, height, breakpoint, debounceTimer,
                   timers, listeners, phase, threw, sinceResize, dirty, commits>>
    /\ UNCHANGED notDev

\* the browser dispatches the resize event: handleResize runs when registered
DispatchResize ==
    /\ resizeQueued
    /\ resizeQueued' = FALSE
    /\ IF listeners > 0
       THEN /\ Cardinality(clearTimeout(debounceTimer, timers)) < MaxTimers
            /\ LET st == getDeviceState(isServer, win)
               IN /\ breakpoint' = ImmediateBreakpoint(revision, breakpoint, st)
                  /\ threw' = (threw \/ (revision = "alt" /\ st.threw))
            /\ timers' = RearmTimer(debounceTimer, timers)
            /\ debounceTimer' = CHOOSE i \in TimerIds(timers') :
                                   \E t \in timers' : t.id = i /\ t \notin timers
            /\ lastOp' = "resize"
            /\ sinceResize' = 0 /\ dirty' = TRUE /\ commits' = 0
       ELSE /\ lastOp' = "unheard"
            /\ UNCHANGED <<breakpoint, threw, timers, debounceTimer,
                           sinceResize, dirty, commits>>
    /\ UNCHANGED <<revision, isServer, win, size, height, listeners, phase>>
    /\ UNCHANGED notDev

\* TickMs of wall-clock time pass; a due timer runs before more time passes
Tick ==
    /\ \A t \in timers : t.elapsed < debounceMs
    /\ timers # {} \/ sinceResize < debounceMs
    /\ timers' = {[id |-> t.id, elapsed |-> Min2(t.elapsed + TickMs, debounceMs)] :
                    t \in timers}
    /\ sinceResize' = Min2(sinceResize + TickMs, debounceMs)
    /\ lastOp' = "tick"
    /\ UNCHANGED <<revision, isServer, win, resizeQueued, size, height, breakpoint,
                   debounceTimer, listeners, phase, threw, dirty, commits>>
    /\ UNCHANGED notDev

\* a pending timer whose delay has passed fires and runs the debounce callback
TimerFire(t) ==
    /\ t \in timers /\ t.elapsed >= debounceMs
    /\ timers' = timers \ {t}
    /\ LET st == getDeviceState(isServer, win)
           new == debounceCallback(revision, breakpoint, st)
       IN /\ size' = new.size /\ height' = new.height
          /\ breakpoint' = new.breakpoint
          /\ threw' = (threw \/ st.threw)
    /\ lastOp' = "fire"
    /\ dirty' = FALSE
    /\ commits' = commits + 1
    /\ UNCHANGED <<revision, isServer, win, resizeQueued, debounceTimer,
                   listeners, phase, sinceResize>>
    /\ UNCHANGED notDev

\* the owning scope is disposed: the onCleanup registered in onMount runs
Dispose ==
    /\ phase \in {"created", "mounted"}
    /\ phase' = "disposed"
    /\ IF phase = "mounted"
       THEN /\ listeners' = 0
            /\ timers' = cleanupTimers(debounceTimer, timers)
       ELSE UNCHANGED <<listeners, timers>>
    /\ lastOp' = "dispose"
    /\ UNCHANGED <<revision, isServer, win, resizeQueued, size, height, breakpoint,
                   debounceTimer, threw, sinceResize, dirty, commits>>
    /\ UNCHANGED notDev

DevNext ==
    \/ Mount
    \/ \E w \in TrackerWidths, h \in TrackerHeights : SetViewport(w, h)
    \/ DispatchResize
    \/ Tick
    \/ \E t \in timers : TimerFire(t)
    \/ Dispose

DevSpec == DevInit /\ [][DevNext]_vars

\* timers are driven by the event loop: time passes and a due timer runs
DevFairSpec ==
    DevSpec /\ WF_vars(Tick) /\ WF_vars(\E t \in timers : TimerFire(t))

Spec == DevSpec

\* C1: for every viewport width w >= 0 getDeviceState's breakpoint is the one with
\* the largest minimum width (base=0, sm=640, md=768, lg=1024, xl=1280, 2xl=1536)
\* that is <= w, so each threshold t puts t-1 in the smaller class and t in its own.
C1_LargestThresholdAtMostWidth ==
    LET Min == [base |-> 0, sm |-> 640, md |-> 768, lg |-> 1024,
                xl |-> 1280, 2xl |-> 1536]
        Names == DOMAIN Min
    IN /\ fnState.width = fnWidth
       /\ fnState.size \in Names
       /\ Min[fnState.size] <= fnWidth
       /\ \A b \in Names : Min[b] <= fnWidth => Min[b] <= Min[fnState.size]

C1_Witness == fnWidth = 767 /\ fnState.size = "sm" /\ fnCompare = NoCompare

\* C2: compare(op, t) is true exactly when index(c) op index(t) holds for the
\* positions of the current breakpoint c and of t in [base, sm, md, lg, xl, 2xl].
C2_CompareFollowsOrdinals ==
    LET Ord == [base |-> 0, sm |-> 1, md |-> 2, lg |-> 3, xl |-> 4, 2xl |-> 5]
        c == Ord[fnState.size]
        t == Ord[fnCompare.bp]
    IN fnCompare.op # "none" =>
         fnCompare.result =
            CASE fnCompare.op = "<" -> c < t
              [] fnCompare.op = ">" -> c > t
              [] fnCompare.op = "<=" -> c <= t
              [] fnCompare.op = ">=" -> c >= t
              [] fnCompare.op = "===" -> c = t

C2_Witness ==
    /\ fnState.size = "md"
    /\ fnCompare = [op |-> "<=", bp |-> "md", result |-> TRUE]


(***************************************************************************)
(* CardNav: the expand/collapse controller and its gsap timeline.          *)
(* A timeline's playhead is `time` in 0..TimelineSteps; the gsap ticker    *)
(* moves it one step per Frame while the timeline is alive and not paused. *)
(***************************************************************************)
\* createTimeline(): gsap.set(navRef, {height: TOP_BAR_HEIGHT}); a paused timeline
\* whose first tween takes the nav to calculatedHeight(); "ui" registers
\* onReverseComplete at creation
createTimeline(rev, h) ==
    [defined |-> TRUE, alive |-> TRUE, time |-> 0, paused |-> TRUE,
     reversed |-> FALSE, target |-> h, onReverseComplete |-> (rev = "ui")]

\* timeline.play(): reversed(false).paused(false), from the current playhead
play(tl) == [tl EXCEPT !.reversed = FALSE, !.paused = FALSE]

\* timeline.play(0): seek(0) with events suppressed, then play()
play0(tl) == [tl EXCEPT !.time = 0, !.reversed = FALSE, !.paused = FALSE]

\* timeline.reverse(): reversed(true).paused(false), from the current playhead
reverse(tl) == [tl EXCEPT !.reversed = TRUE, !.paused = FALSE]

\* timeline.progress(1): the playhead jumps to the end
progress1(tl) == [tl EXCEPT !.time = TimelineSteps]

\* timeline.kill(): the timeline never renders or calls back again
kill(tl) == [tl EXCEPT !.alive = FALSE]

\* timeline.eventCallback('onReverseComplete', fn)
eventCallback(tl) == [tl EXCEPT !.onReverseComplete = TRUE]

\* the ticker moves a live, unpaused timeline
Running(tl) ==
    /\ tl.defined /\ tl.alive /\ ~tl.paused
    /\ \/ ~tl.reversed /\ tl.time < TimelineSteps
       \/ tl.reversed /\ tl.time > 0

\* the height the first tween has given the nav at playhead `time`
TweenHeight(tl) ==
    TOP_BAR_HEIGHT + ((tl.target - TOP_BAR_HEIGHT) * tl.time) \div TimelineSteps

\* mobileHeight memo: TOP_BAR_HEIGHT + contentEl.scrollHeight + PADDING * 4
mobileHeight(content) == TOP_BAR_HEIGHT + content + PADDING * 4

\* mutant: the memo measures again whenever anything it could read changed
mobileHeightMemo_untracked(changed, memo, live) ==
    IF changed # {} THEN live ELSE memo

\* createMemo around the measurement: the memo reads the signal contentRef()
\* and nothing else reactive, so it measures again only when that signal is
\* among the changed ones; otherwise it keeps the scrollHeight it measured
mobileHeightMemo(changed, memo, live) ==
    IF "contentRef" \in changed THEN live ELSE memo

\* calculatedHeight memo
calculatedHeight(bp, content) ==
    IF compare(bp, "<", "md") THEN mobileHeight(content) ELSE DESKTOP_HEIGHT

\* isOpen memo of "ui"; "components" has the single flag isExpanded
isOpen == IF controlled THEN propOpen ELSE internalOpen

\* mutant: the close branch hides the content at once
animationTriggerEffect_hideAtOnce(open, exp, tl) ==
    IF ~tl.defined THEN [isExpanded |-> exp, timeline |-> tl]
    ELSE IF open THEN [isExpanded |-> TRUE, timeline |-> play(tl)]
    ELSE [isExpanded |-> FALSE, timeline |-> reverse(tl)]

\* mutant: the open branch shows the content but never plays the timeline
animationTriggerEffect_noPlay(open, exp, tl) ==
    IF ~tl.defined THEN [isExpanded |-> exp, timeline |-> tl]
    ELSE IF open THEN [isExpanded |-> TRUE, timeline |-> tl]
    ELSE [isExpanded |-> exp, timeline |-> reverse(tl)]

\* mutant: the open branch plays the timeline without showing the content first
animationTriggerEffect_noShow(open, exp, tl) ==
    IF ~tl.defined THEN [isExpanded |-> exp, timeline |-> tl]
    ELSE IF open THEN [isExpanded |-> exp, timeline |-> play(tl)]
    ELSE [isExpanded |-> exp, timeline |-> reverse(tl)]

\* "ui", Animation Trigger Effect: runs when isOpen() changes
animationTriggerEffect(open, exp, tl) ==
    IF ~tl.defined THEN [isExpanded |-> exp, timeline |-> tl]
    ELSE IF open THEN [isExpanded |-> TRUE, timeline |-> play(tl)]
    ELSE [isExpanded |-> exp, timeline |-> reverse(tl)]

\* mutant: the open branch recreates the timeline but leaves it at its start
resizeEffect_noJump(rev, open, exp, tl, newHeight) ==
    IF ~tl.defined
    THEN [isExpanded |-> exp, timeline |-> tl, touched |-> FALSE]
    ELSE [isExpanded |-> (IF rev = "ui" /\ open THEN TRUE ELSE exp),
          timeline |-> createTimeline(rev, newHeight),
          touched |-> TRUE]

\* Resize / Height Update Effect: runs when calculatedHeight() changes.
\* "ui" branches on isOpen() and forces isExpanded; "components" branches on
\* isExpanded().  Both kill the timeline and create a new one.
resizeEffect(rev, open, exp, tl, newHeight) ==
    IF ~tl.defined
    THEN [isExpanded |-> exp, timeline |-> tl, touched |-> FALSE]
    ELSE IF (rev = "ui" /\ open) \/ (rev = "components" /\ exp)
    THEN [isExpanded |-> (IF rev = "ui" THEN TRUE ELSE exp),
          timeline |-> progress1(createTimeline(rev, newHeight)),
          touched |-> TRUE]
    ELSE [isExpanded |-> exp,
          timeline |-> createTimeline(rev, newHeight),
          touched |-> TRUE]

\* "components", toggleMenu
toggleMenuComponents(exp, ham, tl) ==
    IF ~tl.defined
    THEN [isExpanded |-> exp, isHamburgerOpen |-> ham, timeline |-> tl]
    ELSE IF ~exp
    THEN [isExpanded |-> TRUE, isHamburgerOpen |-> TRUE, timeline |-> play0(tl)]
    ELSE [isExpanded |-> exp, isHamburgerOpen |-> FALSE,
          timeline |-> reverse(eventCallback(tl))]

\* the logical open state of either revision
LogicalOpen == IF navRevision = "ui" THEN isOpen ELSE isHamburgerOpen

NavInit ==
    /\ navRevision \in NavRevisions
    /\ controlled \in (IF navRevision = "ui" THEN BOOLEAN ELSE {FALSE})
    /\ propOpen \in (IF controlled THEN BOOLEAN ELSE {FALSE})
    /\ internalOpen = FALSE /\ isHamburgerOpen = FALSE /\ isExpanded = FALSE
    /\ timeline = NoTimeline
    /\ navHeight = TOP_BAR_HEIGHT
    /\ navBreakpoint \in DeviceSize
    /\ contentHeight \in ContentHeights
    /\ scrollHeight = contentHeight
    /\ navPhase = "rendered" /\ navLastOp = "init" /\ scenario = "none"
    /\ FnIdle /\ DevIdle /\ BgIdle /\ SbIdle /\ McIdle /\ LpIdle /\ TiltIdle

\* after the first render: onMount creates the timeline, then both effects run once
NavMount ==
    /\ navPhase = "rendered"
    /\ navPhase' = "mounted"
    /\ LET h == calculatedHeight(navBreakpoint, contentHeight)
           tl0 == createTimeline(navRevision, h)
           r == resizeEffect(navRevision, isOpen, isExpanded, tl0, h)
           a == IF navRevision = "ui"
                THEN animationTriggerEffect(isOpen, r.isExpanded, r.timeline)
                ELSE [isExpanded |-> r.isExpanded, timeline |-> r.timeline]
       IN /\ timeline' = a.timeline
          /\ isExpanded' = a.isExpanded
          /\ navHeight' = TweenHeight(a.timeline)
    /\ navLastOp' = "mount"
    /\ scenario' = "none"
    /\ UNCHANGED <<navRevision, controlled, propOpen, internalOpen,
                   isHamburgerOpen, navBreakpoint, contentHeight, scrollHeight>>
    /\ UNCHANGED notNav

\* the scenario observer: a toggle in the collapsed card, then a second toggle
\* before the opening animation has completed
ScenarioAfterToggle ==
    IF scenario = "none" /\ ~LogicalOpen /\ ~isExpanded /\ timeline.time = 0
    THEN "once"
    ELSE IF scenario = "once" /\ timeline.time < TimelineSteps
    THEN "twice"
    ELSE "none"

\* click on the hamburger of "ui": toggleMenu, then the effect its signal triggers;
\* parentFollows: the owner of a controlled isOpen applies onIsOpenChange
ToggleMenuUi(parentFollows) ==
    /\ navPhase = "mounted" /\ navRevision = "ui"
    /\ controlled \/ parentFollows
    /\ LET nextState == ~isOpen
           newOpen == IF controlled /\ ~parentFollows THEN isOpen ELSE nextState
           a == IF newOpen # isOpen
                THEN animationTriggerEffect(newOpen, isExpanded, timeline)
                ELSE [isExpanded |-> isExpanded, timeline |-> timeline]
       IN /\ internalOpen' = IF controlled THEN internalOpen ELSE nextState
          /\ propOpen' = IF controlled /\ parentFollows THEN nextState ELSE propOpen
          /\ isExpanded' = a.isExpanded
          /\ timeline' = a.timeline
          /\ scenario' = IF newOpen # isOpen THEN ScenarioAfterToggle ELSE "none"
    /\ navLastOp' = "toggle"
    /\ UNCHANGED <<navRevision, controlled, isHamburgerOpen, navHeight,
                   navBreakpoint, contentHeight, scrollHeight, navPhase>>
    /\ UNCHANGED notNav

\* click on the hamburger of "components"
ToggleMenuComponents ==
    /\ navPhase = "mounted" /\ navRevision = "components"
    /\ LET t == toggleMenuComponents(isExpanded, isHamburgerOpen, timeline)
       IN /\ isExpanded' = t.isExpanded
          /\ isHamburgerOpen' = t.isHamburgerOpen
          /\ timeline' = t.timeline
          /\ navHeight' = IF t.timeline.time # timeline.time
                          THEN TweenHeight(t.timeline) ELSE navHeight
    /\ scenario' = ScenarioAfterToggle
    /\ navLastOp' = "toggle"
    /\ UNCHANGED <<navRevision, controlled, propOpen, internalOpen,
                   navBreakpoint, contentHeight, scrollHeight, navPhase>>
    /\ UNCHANGED notNav

\* the owner of a controlled isOpen changes it
SetIsOpen(v) ==
    /\ navPhase = "mounted" /\ controlled /\ v # propOpen
    /\ propOpen' = v
    /\ LET a == animationTriggerEffect(v, isExpanded, timeline)
       IN /\ isExpanded' = a.isExpanded
          /\ timeline' = a.timeline
    /\ scenario' = "none"
    /\ navLastOp' = "setIsOpen"
    /\ UNCHANGED <<navRevision, controlled, internalOpen, isHamburgerOpen,
                   navHeight, navBreakpoint, contentHeight,
                   scrollHeight, navPhase>>
    /\ UNCHANGED notNav

\* device.breakpoint() changes; the resize effect runs when calculatedHeight() does
BreakpointChange(bp) ==
    /\ navPhase = "mounted" /\ bp # navBreakpoint
    /\ navBreakpoint' = bp
    /\ contentHeight' = mobileHeightMemo({"breakpoint"}, contentHeight, scrollHeight)
    /\ LET old == calculatedHeight(navBreakpoint, contentHeight)
           new == calculatedHeight(bp, contentHeight')
           r == IF new # old
                THEN resizeEffect(navRevision, isOpen, isExpanded, timeline, new)
                ELSE [isExpanded |-> isExpanded, timeline |-> timeline,
                      touched |-> FALSE]
       IN /\ isExpanded' = r.isExpanded
          /\ timeline' = r.timeline
          /\ navHeight' = IF r.touched THEN TweenHeight(r.timeline) ELSE navHeight
    /\ scenario' = "none"
    /\ navLastOp' = "breakpoint"
    /\ UNCHANGED <<navRevision, controlled, propOpen, internalOpen,
                   isHamburgerOpen, scrollHeight, navPhase>>
    /\ UNCHANGED notNav

\* the window is resized within one breakpoint class and the content reflows:
\* its scrollHeight changes, device.size() changes, no ref callback runs
ContentReflow(h) ==
    /\ navPhase = "mounted" /\ h # scrollHeight
    /\ scrollHeight' = h
    /\ contentHeight' = mobileHeightMemo({"size"}, contentHeight, h)
    /\ LET old == calculatedHeight(navBreakpoint, contentHeight)
           new == calculatedHeight(navBreakpoint, contentHeight')
           r == IF new # old
                THEN resizeEffect(navRevision, isOpen, isExpanded, timeline, new)
                ELSE [isExpanded |-> isExpanded, timeline |-> timeline,
                      touched |-> FALSE]
       IN /\ isExpanded' = r.isExpanded
          /\ timeline' = r.timeline
          /\ navHeight' = IF r.touched THEN TweenHeight(r.timeline) ELSE navHeight
    /\ scenario' = "none"
    /\ navLastOp' = "reflow"
    /\ UNCHANGED <<navRevision, controlled, propOpen, internalOpen,
                   isHamburgerOpen, navBreakpoint, navPhase>>
    /\ UNCHANGED notNav

\* a gsap ticker frame: the playhead moves; arriving at 0 in reverse calls
\* onReverseComplete, which is setIsExpanded(false)
Frame ==
    /\ Running(timeline)
    /\ LET t == IF timeline.reversed THEN timeline.time - 1 ELSE timeline.time + 1
       IN /\ timeline' = [timeline EXCEPT !.time = t]
          /\ navHeight' = TweenHeight(timeline')
          /\ isExpanded' = IF timeline.reversed /\ t = 0 /\ timeline.onReverseComplete
                           THEN FALSE ELSE isExpanded
          /\ navLastOp' = IF timeline.reversed /\ t = 0 /\ timeline.onReverseComplete
                          THEN "reverseComplete" ELSE "frame"
          /\ scenario' = IF scenario = "once" /\ t = TimelineSteps
                         THEN "none" ELSE scenario
    /\ UNCHANGED <<navRevision, controlled, propOpen, internalOpen,
                   isHamburgerOpen, navBreakpoint, contentHeight,
                   scrollHeight, navPhase>>
    /\ UNCHANGED notNav

\* the component is disposed: onCleanup kills the timeline
NavDispose ==
    /\ navPhase \in {"rendered", "mounted"}
    /\ navPhase' = "disposed"
    /\ timeline' = IF timeline.defined THEN kill(timeline) ELSE timeline
    /\ navLastOp' = "dispose"
    /\ scenario' = "none"
    /\ UNCHANGED <<navRevision, controlled, propOpen, internalOpen,
                   isHamburgerOpen, isExpanded, navHeight, navBreakpoint,
                   contentHeight, scrollHeight>>
    /\ UNCHANGED notNav

NavNext ==
    \/ NavMount
    \/ \E f \in BOOLEAN : ToggleMenuUi(f)
    \/ ToggleMenuComponents
    \/ \E v \in BOOLEAN : SetIsOpen(v)
    \/ \E bp \in DeviceSize : BreakpointChange(bp)
    \/ \E h \in ContentHeights : ContentReflow(h)
    \/ Frame
    \/ NavDispose

NavSpec == NavInit /\ [][NavNext]_vars

\* the ticker keeps running while a timeline is active
NavFairSpec == NavSpec /\ WF_vars(Frame)

(***************************************************************************)
(* Claims about the breakpoint tracker                                     *)
(***************************************************************************)
\* the class the claims assign to a width: the breakpoint with the largest
\* minimum width that is <= w
LargestBreakpointAtMost(w) ==
    LET Min == [base |-> 0, sm |-> 640, md |-> 768, lg |-> 1024,
                xl |-> 1280, 2xl |-> 1536]
    IN CHOOSE b \in DOMAIN Min :
          /\ Min[b] <= w
          /\ \A c \in DOMAIN Min : Min[c] <= w => Min[c] <= Min[b]

\* C3 (as claimed): in every reachable state, also during a burst of resize events
\* and while a debounce timer is pending, the published breakpoint is the largest
\* breakpoint whose minimum width is <= the published width signal.
C3_BreakpointMatchesPublishedWidth ==
    breakpoint = LargestBreakpointAtMost(size)

\* C3 (amended): whenever no resize event has been handled since the last commit
\* (initial state, after mount, after the timer fired) the published breakpoint is
\* the largest breakpoint whose minimum width is <= the published width.
C3_BreakpointMatchesWidthWhenSettled ==
    ~dirty => breakpoint = LargestBreakpointAtMost(size)

C3_Witness ==
    /\ lastOp = "fire" /\ ~dirty /\ size = 1024 /\ breakpoint = "lg"

\* C4: a resize event that moves the viewport into another breakpoint class
\* publishes the new class inside its own handler run, before any timer fires.
C4_BreakpointImmediateOnResize ==
    lastOp = "resize" => breakpoint = LargestBreakpointAtMost(win.w)

\* C5: width and height change only when the debounce timer fires; the timer fires
\* only after debounceMs without a resize event; every resize event replaces the
\* pending timer, so a burst yields exactly one commit, of the viewport at fire time.
C5_DebouncedCommit ==
    /\ [][(size' # size \/ height' # height) => lastOp' = "fire"]_vars
    /\ [](lastOp = "fire" =>
            /\ sinceResize >= debounceMs
            /\ commits = 1
            /\ size = win.w /\ height = win.h)
    /\ [](Cardinality(timers) <= 1)
    /\ [](dirty /\ phase = "mounted" => timers # {})
    /\ \A i \in 1..(MaxTimers + 1) :
          (dirty /\ debounceTimer = i /\ phase = "mounted")
             ~> (~dirty \/ debounceTimer # i \/ phase = "disposed")

C5_Witness ==
    /\ lastOp = "fire" /\ commits = 1 /\ size = 1366 /\ height = 900
    /\ ~resizeQueued

\* C6: once resize events stop and the tracker is not torn down the pending timer
\* fires, and right after it fires width, height and breakpoint are the ones derived
\* from the viewport at that moment, whatever the handler had published before.
C6_SettlesToViewport ==
    /\ \A i \in 1..(MaxTimers + 1) :
          (debounceTimer = i /\ i \in TimerIds(timers))
             ~> \/ /\ lastOp = "fire"
                   /\ size = win.w /\ height = win.h
                   /\ breakpoint = LargestBreakpointAtMost(win.w)
                \/ debounceTimer # i
                \/ phase = "disposed"
    /\ [](lastOp = "fire" =>
            /\ size = win.w /\ height = win.h
            /\ breakpoint = LargestBreakpointAtMost(win.w))

\* a due timer in the revision that publishes at once, while the published class
\* is not the class of the viewport any more
C6_Witness ==
    /\ revision = "alt" /\ phase = "mounted"
    /\ \E t \in timers : t.elapsed >= debounceMs
    /\ breakpoint # LargestBreakpointAtMost(win.w)
    /\ breakpoint # LargestBreakpointAtMost(size)

\* C7: a mounted tracker has exactly one resize listener; disposing the scope removes
\* it and cancels the pending timer, so no signal changes after teardown, also when
\* teardown happens while a timer is pending.
C7_TeardownReleasesEverything ==
    /\ [](phase = "mounted" => listeners = 1)
    /\ [](listeners <= 1)
    /\ [](phase = "disposed" => listeners = 0 /\ timers = {})
    /\ [][phase = "disposed" => UNCHANGED <<size, height, breakpoint>>]_vars

\* torn down while a timer was pending, and the viewport kept changing afterwards
C7_Witness ==
    /\ phase = "disposed" /\ dirty /\ debounceTimer # 0
    /\ lastOp = "unheard" /\ size # win.w

\* C8: with no viewport (server rendering) getDeviceState yields width 0, height 0,
\* breakpoint base without reading the viewport or raising, and a tracker created
\* there starts in that state.
C8_ServerDefaultState ==
    isServer =>
        /\ getDeviceState(isServer, win) =
              [width |-> 0, height |-> 0, size |-> "base", threw |-> FALSE]
        /\ size = 0 /\ height = 0 /\ breakpoint = "base"
        /\ ~threw

C8_Witness ==
    /\ isServer /\ ~win.defined /\ phase = "created" /\ lastOp = "init"
    /\ size = 0 /\ height = 0 /\ breakpoint = "base"


(***************************************************************************)
(* Claims about CardNav                                                    *)
(***************************************************************************)
\* C9: isExpanded goes from true to false only in the timeline's reverse-complete
\* callback: never while the closing animation is still running and never in the
\* step in which the logical open state becomes false.
C9_HideOnlyOnReverseComplete ==
    [][(isExpanded /\ ~isExpanded') =>
          /\ navLastOp' = "reverseComplete"
          /\ timeline.reversed /\ timeline.time > 0 /\ timeline'.time = 0
          /\ ~Running(timeline')
          /\ LogicalOpen' = LogicalOpen]_vars

C9_Witness ==
    /\ navLastOp = "reverseComplete" /\ ~isExpanded /\ ~LogicalOpen
    /\ timeline.time = 0 /\ navHeight = TOP_BAR_HEIGHT

\* C10: from the collapsed card, two toggles in immediate succession (open, then
\* close before the opening animation has completed), once the animation has run
\* to completion, leave the card Collapsed: logical open state false, isExpanded false.
C10_DoubleToggleEndsCollapsed ==
    (scenario = "twice" /\ ~Running(timeline)) =>
        /\ ~LogicalOpen
        /\ ~isExpanded
        /\ timeline.time = 0


\* the four states of the card; "other" is any state outside them
CardState ==
    IF ~LogicalOpen /\ ~isExpanded /\ timeline.time = 0 /\ ~Running(timeline)
    THEN "Collapsed"
    ELSE IF LogicalOpen /\ isExpanded /\ Running(timeline) /\ ~timeline.reversed
    THEN "Expanding"
    ELSE IF LogicalOpen /\ isExpanded /\ timeline.time = TimelineSteps
    THEN "Expanded"
    ELSE IF ~LogicalOpen /\ isExpanded /\ Running(timeline) /\ timeline.reversed
    THEN "Collapsing"
    ELSE "other"

\* a step that flips the logical open state; a ticker step that moves the playhead
NavToggled == LogicalOpen' # LogicalOpen
NavTicked ==
    /\ navLastOp' \in {"frame", "reverseComplete"}
    /\ timeline'.time # timeline.time

CardEdges ==
    {<<"Collapsed", "Expanding">>, <<"Expanding", "Expanded">>,
     <<"Expanded", "Collapsing">>, <<"Collapsing", "Collapsed">>}

NavTarget == calculatedHeight(navBreakpoint, contentHeight)

\* C12: when the target height changes while the card is open, the same effect run
\* sets the container to the new height and replaces the timeline by a new one at
\* progress 1; so an Expanded card always has the current target height.
C12_OpenCardTracksTargetHeight ==
    /\ [][(/\ navPhase = "mounted" /\ navPhase' = "mounted"
           /\ (IF navRevision = "ui" THEN isOpen ELSE isExpanded)
           /\ NavTarget' # NavTarget) =>
             /\ navHeight' = NavTarget'
             /\ timeline'.alive /\ timeline'.target = NavTarget'
             /\ timeline'.time = TimelineSteps
             /\ isExpanded']_vars
    /\ [](navPhase = "mounted" /\ CardState = "Expanded" => navHeight = NavTarget)

C12_Witness ==
    /\ navPhase = "mounted" /\ navLastOp = "breakpoint"
    /\ CardState = "Expanded" /\ timeline.paused
    /\ contentHeight = 300 /\ navBreakpoint = "sm"
    /\ navHeight = mobileHeight(contentHeight)

(***************************************************************************)
(* BgController / BgContainer (background-gradient-switch.tsx)              *)
(***************************************************************************)
MaxSections == 3

\* the BgContainer elements of the page; element e is the e-th section from the
\* top, in document order and in vertical position alike
Elements == 1..MaxSections

Palette == <<"red", "lime", "blue", "white">>

\* gsap.utils.splitColor on a colour keyword: [r, g, b]
splitColor(colorString) ==
    CASE colorString = "red" -> <<255, 0, 0>>
      [] colorString = "lime" -> <<0, 255, 0>>
      [] colorString = "blue" -> <<0, 0, 255>>
      [] colorString = "white" -> <<255, 255, 255>>
      [] OTHER -> <<0, 0, 0>>

\* computeColor(colorString, fallbackColor); "" stands for undefined
computeColor(colorString, fallbackColor) ==
    IF colorString = "" THEN fallbackColor
    ELSE LET c == splitColor(colorString)
         IN RgbaColor(c[1], c[2], c[3], 1)

\* the props of the BgContainer rendering element e; the second section gives
\* no bgStart and so falls back to the controller default
ContainerProps(e) ==
    [element |-> e,
     bgStart |-> IF e = 2 THEN "" ELSE Palette[(e % Len(Palette)) + 1],
     bgEnd |-> Palette[((e - 1) % Len(Palette)) + 1]]

DefaultBgs == {"", "black"}

\* const userDefaultColor = createMemo(() => computeColor(props.defaultBg, TRANSPARENT_BLACK))
userDefaultColor(bg) == computeColor(bg, TRANSPARENT_BLACK)

\* contextValue.registerTrigger: setTriggers(prev => [...prev, newTrigger])
registerTrigger(data, defaultForThisTrigger, prev) ==
    Append(prev, [element |-> data.element,
                  computedBgStart |-> computeColor(data.bgStart, defaultForThisTrigger),
                  computedBgEnd |-> computeColor(data.bgEnd, defaultForThisTrigger)])

\* contextValue.deregisterTrigger: setTriggers(prev => prev.filter(t => t.element !== element))
deregisterTrigger(element, prev) == SelectSeq(prev, LAMBDA t : t.element # element)

Registered(ts) == {ts[i].element : i \in 1..Len(ts)}

\* element.getBoundingClientRect().top, in section heights, at scroll position y
rectTop(e, y) == e - y

\* a.compareDocumentPosition(b): 4 = DOCUMENT_POSITION_FOLLOWING (b follows a),
\* 2 = DOCUMENT_POSITION_PRECEDING, 0 = same node
compareDocumentPosition(a, b) == IF a < b THEN 4 ELSE IF a > b THEN 2 ELSE 0

\* x & 4
BitAnd4(x) == ((x \div 4) % 2) * 4

\* the comparator handed to Array.prototype.sort by each revision
sortComparator(rev, y, a, b) ==
    IF rev = "rect" THEN rectTop(a.element, y) - rectTop(b.element, y)
    ELSE IF BitAnd4(compareDocumentPosition(a.element, b.element)) # 0 THEN 1 ELSE -1

\* [...currentTriggers].sort(comparator): Array.prototype.sort is stable, so an
\* element lands behind exactly those the comparator orders before it and
\* those it ties with that stood before it
SortTriggers(rev, y, ts) ==
    LET before(i) == {j \in 1..Len(ts) :
                        \/ j # i /\ sortComparator(rev, y, ts[j], ts[i]) < 0
                        \/ sortComparator(rev, y, ts[j], ts[i]) = 0 /\ j < i}
    IN [k \in 1..Len(ts) |->
          ts[CHOOSE i \in 1..Len(ts) : Cardinality(before(i)) = k - 1]]

PendingHandles(ts) == {t.id : t \in ts}

\* setTimeout returns a handle no pending timer uses and the caller does not hold
NextHandle(ts, held) ==
    CHOOSE i \in 1..(Cardinality(ts) + 2) :
        /\ i \notin PendingHandles(ts) \cup {held}
        /\ \A j \in 1..(Cardinality(ts) + 2) :
              j \notin PendingHandles(ts) \cup {held} => i <= j

\* mutant: the pending rebuild is left in place when the effect runs again
scheduleRebuild_noClear(held, ts, currentTriggers, currentDefaultColor) ==
    ts \cup {[id |-> NextHandle(ts, held),
              currentTriggers |-> currentTriggers,
              currentDefaultColor |-> currentDefaultColor]}

\* one run of the effect on the timers: the previous run's onCleanup and the
\* body both clearTimeout(effectTimeoutId), then effectTimeoutId = setTimeout(..., 0)
scheduleRebuild(held, ts, currentTriggers, currentDefaultColor) ==
    LET cleared == clearTimeout(held, clearTimeout(held, ts))
    IN cleared \cup {[id |-> NextHandle(cleared, held),
                      currentTriggers |-> currentTriggers,
                      currentDefaultColor |-> currentDefaultColor]}

\* the handle the effect stores: the one timer of `after` that `before` lacks
StoredHandle(before, after) ==
    CHOOSE i \in PendingHandles(after) : i \notin PendingHandles(before)

\* mutant: the effect's cleanup leaves the ScrollTriggers alive
killAll_none(handles, live) == live

\* onCleanup: allScrollTriggers.forEach(st => st.kill())
killAll(handles, live) ==
    {st \in live : \A i \in 1..Len(handles) : handles[i] # st.id}

MaxId(live) == IF live = {} THEN 0 ELSE CHOOSE i \in {st.id : st \in live} :
                                            \A st \in live : st.id <= i

\* sortedTriggers.forEach((trigger, index) => ScrollTrigger.create({...})):
\* the instances created, in creation order, with the colours their onEnter
\* and onLeaveBack closures capture
createScrollTriggers(sorted, currentDefaultColor, base) ==
    [index \in 1..Len(sorted) |->
        [id |-> base + index,
         trigger |-> sorted[index].element,
         onEnter |-> [start |-> sorted[index].computedBgStart,
                      end |-> sorted[index].computedBgEnd],
         onLeaveBack |->
            IF index > 1
            THEN [start |-> sorted[index - 1].computedBgStart,
                  end |-> sorted[index - 1].computedBgEnd]
            ELSE [start |-> currentDefaultColor, end |-> currentDefaultColor]]]

\* a ScrollTrigger created while the scroll position is already past its start
\* line fires onEnter at once; the last gsap.to on the layer wins
GradientAfterCreate(created, y, g) ==
    LET fired == {i \in 1..Len(created) : created[i].trigger <= y}
    IN IF fired = {} THEN g
       ELSE created[CHOOSE i \in fired : \A k \in fired : k <= i].onEnter

\* the callback of the ScrollTriggers watching element e, in creation order
FireCallbacks(live, e, enter, g) ==
    LET watching == {st \in live : st.trigger = e}
    IN IF watching = {} THEN g
       ELSE LET last == CHOOSE st \in watching : \A o \in watching : o.id <= st.id
            IN IF enter THEN last.onEnter ELSE last.onLeaveBack

\* the state after the first run of the effect: the registry is empty and the
\* first rebuild is pending
BgInit ==
    /\ bgRevision \in BgRevisions
    /\ defaultBg \in DefaultBgs
    /\ triggers = <<>>
    /\ bgTimers = scheduleRebuild(0, {}, <<>>, userDefaultColor(defaultBg))
    /\ effectTimeoutId = StoredHandle({}, bgTimers)
    /\ allScrollTriggers = <<>>
    /\ scrollTriggers = {}
    /\ gradient = InitialGradient
    /\ scrollY = 0
    /\ bgPhase = "mounted"
    /\ changesPending = 0 /\ coalesced = 0 /\ rebuildsSince = 0
    /\ FnIdle /\ DevIdle /\ NavIdle /\ SbIdle /\ McIdle /\ LpIdle /\ TiltIdle

\* createEffect re-running because triggers() changed
EffectRerun(newTriggers) ==
    /\ scrollTriggers' = killAll(allScrollTriggers, scrollTriggers)
    /\ bgTimers' = scheduleRebuild(effectTimeoutId, bgTimers, newTriggers,
                                   userDefaultColor(defaultBg))
    /\ effectTimeoutId' = StoredHandle(clearTimeout(effectTimeoutId, bgTimers), bgTimers')
    /\ changesPending' = Min2(changesPending + 1, 2)
    /\ coalesced' = 0
    /\ rebuildsSince' = 0
    /\ UNCHANGED <<allScrollTriggers, gradient>>

\* a BgContainer mounts: onMount -> controller.registerTrigger
Register(e) ==
    /\ bgPhase = "mounted"
    /\ e \notin Registered(triggers)
    /\ triggers' = registerTrigger(ContainerProps(e), userDefaultColor(defaultBg), triggers)
    /\ EffectRerun(triggers')
    /\ UNCHANGED <<bgRevision, defaultBg, scrollY, bgPhase>>
    /\ UNCHANGED notBg

\* a BgContainer is removed: onCleanup -> controller.deregisterTrigger
Deregister(e) ==
    /\ bgPhase = "mounted"
    /\ e \in Registered(triggers)
    /\ triggers' = deregisterTrigger(e, triggers)
    /\ EffectRerun(triggers')
    /\ UNCHANGED <<bgRevision, defaultBg, scrollY, bgPhase>>
    /\ UNCHANGED notBg

\* the setTimeout(..., 0) callback of the effect
RebuildFire(t) ==
    /\ t \in bgTimers
    /\ bgTimers' = bgTimers \ {t}
    /\ IF Len(t.currentTriggers) = 0
       THEN /\ allScrollTriggers' = <<>>
            /\ gradient' = [start |-> t.currentDefaultColor, end |-> t.currentDefaultColor]
            /\ UNCHANGED scrollTriggers
       ELSE \E sortedTriggers \in {SortTriggers(bgRevision, scrollY, t.currentTriggers)} :
            \E created \in {createScrollTriggers(sortedTriggers, t.currentDefaultColor,
                                                  MaxId(scrollTriggers))} :
               /\ allScrollTriggers' = [i \in 1..Len(created) |-> created[i].id]
               /\ scrollTriggers' = scrollTriggers \cup {created[i] : i \in 1..Len(created)}
               /\ gradient' = GradientAfterCreate(created, scrollY, gradient)
    /\ rebuildsSince' = Min2(rebuildsSince + 1, 2)
    /\ coalesced' = changesPending
    /\ changesPending' = 0
    /\ UNCHANGED <<bgRevision, defaultBg, triggers, effectTimeoutId, scrollY, bgPhase>>
    /\ UNCHANGED notBg

\* the page scrolls forward across the start line of section scrollY + 1
ScrollDown ==
    /\ bgPhase = "mounted"
    /\ scrollY < MaxSections
    /\ scrollY' = scrollY + 1
    /\ gradient' = FireCallbacks(scrollTriggers, scrollY + 1, TRUE, gradient)
    /\ UNCHANGED <<bgRevision, defaultBg, triggers, effectTimeoutId, bgTimers,
                   allScrollTriggers, scrollTriggers, bgPhase,
                   changesPending, coalesced, rebuildsSince>>
    /\ UNCHANGED notBg

\* the page scrolls backward across the start line of section scrollY
ScrollUp ==
    /\ bgPhase = "mounted"
    /\ scrollY > 0
    /\ scrollY' = scrollY - 1
    /\ gradient' = FireCallbacks(scrollTriggers, scrollY, FALSE, gradient)
    /\ UNCHANGED <<bgRevision, defaultBg, triggers, effectTimeoutId, bgTimers,
                   allScrollTriggers, scrollTriggers, bgPhase,
                   changesPending, coalesced, rebuildsSince>>
    /\ UNCHANGED notBg

\* the controller is disposed: the effect's last onCleanup runs
BgDispose ==
    /\ bgPhase = "mounted"
    /\ bgPhase' = "disposed"
    /\ scrollTriggers' = killAll(allScrollTriggers, scrollTriggers)
    /\ bgTimers' = clearTimeout(effectTimeoutId, bgTimers)
    /\ UNCHANGED <<bgRevision, defaultBg, triggers, effectTimeoutId, allScrollTriggers,
                   gradient, scrollY, changesPending, coalesced, rebuildsSince>>
    /\ UNCHANGED notBg

BgNext ==
    \/ \E e \in Elements : Register(e)
    \/ \E e \in Elements : Deregister(e)
    \/ \E t \in bgTimers : RebuildFire(t)
    \/ ScrollDown
    \/ ScrollUp
    \/ BgDispose

BgSpec == BgInit /\ [][BgNext]_vars

\* a timer of 0 ms is due at once: its callback runs unless it is cleared first
BgFairSpec == BgSpec /\ WF_vars(\E t \in bgTimers : RebuildFire(t))

BgTypeOK ==
    /\ scrollY \in 0..MaxSections
    /\ rebuildsSince \in 0..2
    /\ Registered(triggers) \subseteq Elements

(***************************************************************************)
(* Claims about the background controller                                   *)
(***************************************************************************)
DefaultGradient ==
    [start |-> userDefaultColor(defaultBg), end |-> userDefaultColor(defaultBg)]

\* the colours section e registered with
SectionColours(e) ==
    LET t == CHOOSE t \in {triggers[i] : i \in 1..Len(triggers)} : t.element = e
    IN [start |-> t.computedBgStart, end |-> t.computedBgEnd]

\* the colours of the registered section directly above e, or the default
ColoursAbove(e) ==
    LET above == {o \in Registered(triggers) : o < e}
    IN IF above = {} THEN DefaultGradient
       ELSE SectionColours(CHOOSE o \in above : \A q \in above : q <= o)

\* C13: the triggers of a rebuild are created from a list sorted top-down: the
\* highest section is created first, a section further down is created later,
\* and the predecessor colours each trigger holds are those of the section
\* directly above it (the default for the highest one).
C13_TriggersSortedTopDown ==
    /\ \A a, b \in scrollTriggers : a.id < b.id => a.trigger < b.trigger
    /\ \A st \in scrollTriggers : st.onLeaveBack = ColoursAbove(st.trigger)

\* C14: registry changes that arrive before the deferred callback ran are served
\* by one rebuild: never more than one rebuild is pending (each effect run
\* cancels the earlier one), the pending one is built from the registry as it
\* is now, it is eventually executed, it creates one trigger per registered
\* section, and no second rebuild follows without a further change.
C14_ChangesCoalesceIntoOneRebuild ==
    /\ [](Cardinality(bgTimers) <= 1)
    /\ [](\A t \in bgTimers : t.currentTriggers = triggers)
    /\ [](rebuildsSince <= 1)
    /\ [](rebuildsSince = 1 /\ bgPhase = "mounted" =>
            /\ {st.trigger : st \in scrollTriggers} = Registered(triggers)
            /\ Cardinality(scrollTriggers) = Len(triggers))
    /\ (changesPending > 0 /\ bgPhase = "mounted") ~>
            (rebuildsSince = 1 \/ bgPhase = "disposed")

C14_Witness ==
    /\ bgPhase = "mounted" /\ bgTimers = {}
    /\ rebuildsSince = 1 /\ coalesced = 2
    /\ Len(triggers) = MaxSections
    /\ Cardinality(scrollTriggers) = MaxSections

\* C15: scrolling forward across the start line of a registered section sends
\* the background to that section's colours; scrolling backward across it sends
\* the background to the colours of the registered section directly above, or
\* to the default colour when there is none.
C15_ScrollSetsSectionColours ==
    /\ [][(/\ scrollY' = scrollY + 1
           /\ \E st \in scrollTriggers : st.trigger = scrollY + 1)
          => gradient' = SectionColours(scrollY + 1)]_vars
    /\ [][(/\ scrollY' = scrollY - 1
           /\ \E st \in scrollTriggers : st.trigger = scrollY)
          => gradient' = ColoursAbove(scrollY)]_vars

\* C16: once a rebuild has run on an empty registry, both ends of the gradient
\* are at the controller's default colour and no scroll trigger is alive.
C16_EmptyRegistryResetsToDefault ==
    (rebuildsSince >= 1 /\ triggers = <<>>) =>
        /\ gradient = DefaultGradient
        /\ scrollTriggers = {}
        /\ allScrollTriggers = <<>>

C16_Witness ==
    /\ bgPhase = "mounted" /\ rebuildsSince = 1 /\ coalesced = 2
    /\ triggers = <<>> /\ scrollY = MaxSections
    /\ defaultBg = "black" /\ gradient = DefaultGradient
    /\ scrollTriggers = {}

(***************************************************************************)
(* PillSandbox: pill-sandbox.tsx (planck), rapier2d-pill-sandbox.tsx,       *)
(* matterjs-pill-sandbox.tsx and the p2-es revision                         *)
(***************************************************************************)
MaxInits == 3
MaxPills == 2

SCALE_FACTOR == 50

SbRevisions == {"planck", "rapier", "matter", "p2"}

\* the revisions whose initialisation runs to its end inside the effect's flush
SyncRevisions == {"planck", "matter", "p2"}

\* the revisions that keep the drag state in their own closure variables and
\* release on mouseleave; Matter's MouseConstraint keeps it inside the library
DragRevisions == {"planck", "rapier"}

ContainerWidths == {0, 800}
ContainerHeights == {0, 400}
PointerPositions == {1, 2}

\* an effect run whose initialisation has created nothing (yet)
EmptyInit(status) ==
    [status |-> status, cleaned |-> FALSE, world |-> "none", w |-> 0, h |-> 0,
     dynamicBodies |-> 0, staticBodies |-> 0, listeners |-> {}, frames |-> {},
     isDragging |-> FALSE, held |-> 0, target |-> 0]

\* the handlers each revision registers itself with addEventListener
OwnListeners(rev) ==
    IF rev \in {"planck", "rapier"}
    THEN {"mousedown", "mousemove", "mouseup", "mouseleave",
          "touchstart", "touchmove", "touchend"}
    ELSE IF rev = "p2"
    THEN {"mousedown", "mousemove", "mouseup", "touchstart", "touchmove", "touchend"}
    ELSE {"touchstart", "touchmove", "touchend"}

\* the animation-frame callbacks an initialisation keeps pending
Loops(rev) == IF rev = "matter" THEN {"syncLoop", "runner"} ELSE {"syncLoop"}

\* walls: one static body with four fixtures (planck, rapier) or four bodies
Walls(rev) == IF rev \in {"planck", "rapier"} THEN 1 ELSE 4

\* the world measure: clientWidth / SCALE_FACTOR (Matter works in pixels)
WorldSize(rev, px) == IF rev = "matter" THEN px ELSE px \div SCALE_FACTOR

\* the body of the initialisation from the measurement of the container to
\* `cleanup = () => {...}`: world, walls, one dynamic body per pill ref,
\* listeners, first run of the loop
createWorld(rev, measured, pills) ==
    [status |-> "live", cleaned |-> FALSE, world |-> "alive",
     w |-> WorldSize(rev, measured.w), h |-> WorldSize(rev, measured.h),
     dynamicBodies |-> pills, staticBodies |-> Walls(rev),
     listeners |-> OwnListeners(rev), frames |-> Loops(rev),
     isDragging |-> FALSE, held |-> 0, target |-> 0]

\* mutant: cleanup() leaves the animation-frame callback pending
release_keepLoop(rev, r) ==
    [r EXCEPT !.status = "released", !.cleaned = TRUE, !.listeners = {},
              !.world = "garbage"]

\* cleanup(): cancelAnimationFrame, removeEventListener for every own handler,
\* then world.free() (rapier) or Runner.stop / Engine.clear / Composite.clear
\* (matter); afterwards nothing references the closure any more
release(rev, r) ==
    [EmptyInit("released") EXCEPT
        !.cleaned = TRUE,
        !.world = IF rev = "rapier" THEN "freed"
                  ELSE IF rev = "matter" THEN "cleared" ELSE "garbage",
        !.w = r.w, !.h = r.h,
        !.dynamicBodies = IF rev \in {"rapier", "matter"} THEN 0 ELSE r.dynamicBodies,
        !.staticBodies = IF rev \in {"rapier", "matter"} THEN 0 ELSE r.staticBodies]

\* onCleanup(() => { if (cleanup) cleanup() }) of the effect run that started r
effectCleanup(rev, r) ==
    IF r.cleaned THEN r
    ELSE IF r.status = "live" THEN release(rev, r)
    ELSE [r EXCEPT !.cleaned = TRUE]

\* one run of the effect body: `if (!containerRef) return`, then the
\* initialisation, which the rapier revision suspends at `await init()`
startInit(rev, ref, measured, pills) ==
    IF ~ref THEN EmptyInit("skipped")
    ELSE IF rev = "rapier" THEN EmptyInit("pending")
    ELSE createWorld(rev, measured, pills)

Current == Len(inits)

CleanedUp ==
    IF inits = <<>> THEN inits
    ELSE [inits EXCEPT ![Current] = effectCleanup(sbRevision, inits[Current])]

\* the component has rendered; the effect has not run yet
SbInit ==
    /\ sbRevision \in SbRevisions
    /\ containerRef \in BOOLEAN
    /\ clientSize \in [w : ContainerWidths, h : ContainerHeights]
    /\ pillCount \in {1, MaxPills}
    /\ inits = <<>>
    /\ sbPhase = "created"
    /\ downOver = {} /\ stopped = {} /\ pointerPos = 0 /\ applied = NoDrag
    /\ FnIdle /\ DevIdle /\ NavIdle /\ BgIdle /\ McIdle /\ LpIdle /\ TiltIdle

\* the first run of the effect
SbMount ==
    /\ sbPhase = "created"
    /\ sbPhase' = "mounted"
    /\ inits' = <<startInit(sbRevision, containerRef, clientSize, pillCount)>>
    /\ UNCHANGED <<sbRevision, containerRef, clientSize, pillCount, downOver, stopped, pointerPos, applied>>
    /\ UNCHANGED notSb

\* widthDependency() changed: the effect's onCleanup runs, then the effect again
WidthChange ==
    /\ sbPhase = "mounted"
    /\ Len(inits) < MaxInits
    /\ inits' = Append(CleanedUp, startInit(sbRevision, containerRef, clientSize, pillCount))
    /\ UNCHANGED <<sbRevision, containerRef, clientSize, pillCount, sbPhase,
                   downOver, stopped, pointerPos, applied>>
    /\ UNCHANGED notSb

\* `await init()` resolves: initPhysics continues, whatever became of the
\* effect run that called it
InitResolve(i) ==
    /\ i \in 1..Len(inits)
    /\ inits[i].status = "pending"
    /\ inits' = [inits EXCEPT ![i] =
                    [createWorld(sbRevision, clientSize, pillCount)
                        EXCEPT !.cleaned = inits[i].cleaned]]
    /\ UNCHANGED <<sbRevision, containerRef, clientSize, pillCount, sbPhase,
                   downOver, stopped, pointerPos, applied>>
    /\ UNCHANGED notSb

\* the component is disposed: the effect's onCleanup runs for the last time
SbUnmount ==
    /\ sbPhase = "mounted"
    /\ sbPhase' = "unmounted"
    /\ inits' = CleanedUp
    /\ UNCHANGED <<sbRevision, containerRef, clientSize, pillCount, downOver, stopped, pointerPos, applied>>
    /\ UNCHANGED notSb

\* syncLoop / loop of initialisation i: while dragging, the held body is
\* driven towards targetMousePos
loopBody(i, r) ==
    IF r.isDragging /\ r.held # 0
    THEN [init |-> i, body |-> r.held, target |-> r.target]
    ELSE NoDrag

\* the browser runs a pending animation-frame callback, which requests the next
AnimationFrame(i) ==
    /\ i \in 1..Len(inits)
    /\ "syncLoop" \in inits[i].frames
    /\ applied' = loopBody(i, inits[i])
    /\ UNCHANGED <<sbRevision, containerRef, clientSize, pillCount, sbPhase,
                   inits, downOver, stopped, pointerPos>>
    /\ UNCHANGED notSb

\* handlePointerDown with the pointer inside the hit region of pill `over`
\* (0 = over no pill)
MinOf(S) == CHOOSE x \in S : \A y \in S : x <= y
MaxOf(S) == CHOOSE x \in S : \A y \in S : y <= x

\* handlePointerDown when the pointer lies in the hit regions of `hits`:
\* planck tests every pill in a forEach, so the last one hit ends up in
\* mouseBody; rapier leaves its for loop at the first hit
handlePointerDown(rev, r, hits, pos) ==
    IF "mousedown" \in r.listeners /\ hits # {}
    THEN [r EXCEPT !.held = IF rev = "planck" THEN MaxOf(hits) ELSE MinOf(hits),
                   !.isDragging = TRUE, !.target = pos]
    ELSE r

\* the bodies handlePointerDown calls setLinearVelocity(0, 0) on: planck does
\* so for every pill hit, rapier only wakes the body it grabs
setLinearVelocity(rev, r, hits) ==
    IF "mousedown" \in r.listeners /\ rev = "planck" THEN hits ELSE {}

\* handlePointerMove
handlePointerMove(r, pos) ==
    IF "mousemove" \in r.listeners /\ r.isDragging /\ r.held # 0
    THEN [r EXCEPT !.target = pos]
    ELSE r

\* handlePointerUp, registered for mouseup, mouseleave and touchend
handlePointerUp(r, event) ==
    IF event \in r.listeners
    THEN [r EXCEPT !.isDragging = FALSE, !.held = 0]
    ELSE r

Listening == \E i \in 1..Len(inits) : inits[i].listeners # {}

\* A pointer goes down where it is: while a body is held the pointer is
\* tracked by move events, so a further mousedown (another button) or
\* touchstart (touches[0] is still the first finger) reports that position.
PointerDown(hits, pos) ==
    /\ sbPhase = "mounted" /\ sbRevision \in DragRevisions /\ Listening
    /\ (\E i \in 1..Len(inits) : inits[i].held # 0) => pos = pointerPos
    /\ inits' = [i \in 1..Len(inits) |-> handlePointerDown(sbRevision, inits[i], hits, pos)]
    /\ downOver' = IF hits # {} THEN hits ELSE downOver
    /\ stopped' = UNION {setLinearVelocity(sbRevision, inits[i], hits) : i \in 1..Len(inits)}
    /\ pointerPos' = pos
    /\ UNCHANGED <<sbRevision, containerRef, clientSize, pillCount, sbPhase, applied>>
    /\ UNCHANGED notSb

PointerMove(pos) ==
    /\ sbPhase = "mounted" /\ sbRevision \in DragRevisions /\ Listening
    /\ inits' = [i \in 1..Len(inits) |-> handlePointerMove(inits[i], pos)]
    /\ pointerPos' = pos
    /\ UNCHANGED <<sbRevision, containerRef, clientSize, pillCount, sbPhase,
                   downOver, stopped, applied>>
    /\ UNCHANGED notSb

\* the pointer is released inside the container, or leaves it
PointerUp(event) ==
    /\ sbPhase = "mounted" /\ sbRevision \in DragRevisions /\ Listening
    /\ inits' = [i \in 1..Len(inits) |-> handlePointerUp(inits[i], event)]
    /\ downOver' = {}
    /\ UNCHANGED <<sbRevision, containerRef, clientSize, pillCount, sbPhase,
                   stopped, pointerPos, applied>>
    /\ UNCHANGED notSb

SbNext ==
    \/ SbMount
    \/ WidthChange
    \/ \E i \in 1..MaxInits : InitResolve(i)
    \/ SbUnmount
    \/ \E i \in 1..MaxInits : AnimationFrame(i)
    \/ \E hits \in SUBSET (1..MaxPills), pos \in PointerPositions :
          hits \subseteq 1..pillCount /\ PointerDown(hits, pos)
    \/ \E pos \in PointerPositions : PointerMove(pos)
    \/ \E event \in {"mouseup", "mouseleave"} : PointerUp(event)

SbSpec == SbInit /\ [][SbNext]_vars

SbTypeOK ==
    /\ Len(inits) <= MaxInits
    /\ \A i \in 1..Len(inits) : inits[i].held \in 0..pillCount

(***************************************************************************)
(* Claims about the pill sandboxes                                          *)
(***************************************************************************)
InitIds == 1..Len(inits)

\* what an initialisation still holds on to
Holding(r) == r.frames # {} \/ r.listeners # {} \/ r.world = "alive"

\* C17: in the revisions that initialise synchronously, with the tag list and
\* the container size unchanged, every rebuild leaves exactly one world whose
\* dynamic body count is the tag count, and every teardown leaves no
\* animation-frame callback of the torn-down initialisation pending (none at
\* all after the last teardown).
C17_ReinitIsIdempotent ==
    sbRevision \in SyncRevisions =>
        /\ \A i \in InitIds : inits[i].status = "live" =>
              i = Current /\ inits[i].dynamicBodies = pillCount
        /\ \A i \in InitIds : inits[i].cleaned => inits[i].frames = {}
        /\ sbPhase = "unmounted" => \A i \in InitIds : inits[i].frames = {}

C17_Witness ==
    /\ sbRevision \in SyncRevisions /\ sbPhase = "mounted"
    /\ Len(inits) = 3 /\ pillCount = MaxPills
    /\ inits[1].status = "released" /\ inits[1].frames = {}
    /\ inits[2].status = "released" /\ inits[2].frames = {}
    /\ inits[3].status = "live" /\ inits[3].dynamicBodies = pillCount
    /\ inits[3].frames = Loops(sbRevision)

\* C18: whatever the order of mount, re-initialisations, completions of the
\* asynchronous engine start-up and unmount, an initialisation that is not the
\* latest holds no loop, listener or world, at most one initialisation has an
\* animation-frame callback pending, and after unmount none holds anything.
C18_OneInitAtATime ==
    /\ \A i \in InitIds : i < Current => ~Holding(inits[i])
    /\ Cardinality({i \in InitIds : inits[i].frames # {}}) <= 1
    /\ sbPhase = "unmounted" => \A i \in InitIds : ~Holding(inits[i])

\* C19: when the container measures zero width or zero height, no
\* initialisation creates a world, a body, a listener or a loop.
C19_ZeroSizeSkipsInit ==
    (clientSize.w = 0 \/ clientSize.h = 0) =>
        \A i \in InitIds :
            /\ inits[i].world = "none"
            /\ inits[i].dynamicBodies = 0 /\ inits[i].staticBodies = 0
            /\ inits[i].listeners = {} /\ inits[i].frames = {}

Held == {i \in InitIds : inits[i].held # 0}

\* C20: at most one body is held at a time; a body becomes held only in a step
\* in which the pointer went down on it; a held body's target is the latest
\* pointer position and a frame drives exactly the held body towards it; once
\* the pointer is released or has left, nothing is held and frames apply no
\* drag.
C20_DragFollowsPointer ==
    /\ [](Cardinality(Held) <= 1)
    /\ [][\A i \in InitIds :
            (i <= Len(inits') /\ inits'[i].held # inits[i].held /\ inits'[i].held # 0)
                => inits'[i].held \in downOver' /\ inits'[i].target = pointerPos']_vars
    /\ [](\A i \in Held : inits[i].isDragging /\ inits[i].target = pointerPos)
    /\ [][(applied' # applied /\ applied' # NoDrag) =>
            /\ applied'.init \in Held
            /\ applied'.body = inits[applied'.init].held
            /\ applied'.target = pointerPos]_vars
    /\ [](downOver = {} => Held = {})
    /\ [][(applied' # applied /\ Held = {}) => applied' = NoDrag]_vars

\* C30: a pointer-down overwrites the velocity of at most one body, and only
\* of the body that becomes held, also when the pointer lies in the hit
\* regions of several pills; a pointer-down that hits no pill changes neither
\* the held body nor the drag flag nor any velocity.
C30_PointerDownTouchesOneBody ==
    /\ [](Cardinality(stopped) <= 1)
    /\ [][stopped' # stopped =>
            stopped' \subseteq {inits'[i].held : i \in 1..Len(inits')}]_vars
    /\ [][(stopped # {} /\ stopped' = {}) => inits' = inits]_vars

(***************************************************************************)
(* Scenario widths of the breakpoint classifier                            *)
(***************************************************************************)
\* C22 as stated: 1366 px classifies as lg, 500 px as base, exactly 1024 px as lg.
C22_ScenarioWidthsAsStated ==
    /\ fnWidth = 1366 => fnState.size = "lg"
    /\ fnWidth = 500 => fnState.size = "base"
    /\ fnWidth = 1024 => fnState.size = "lg"

\* C22: a viewport width of 1366 px classifies as xl (1280 <= 1366 < 1536),
\* a width of 500 px as base, and a width of exactly 1024 px as lg.
C22_ScenarioWidths ==
    /\ fnWidth = 1366 => fnState.size = "xl"
    /\ fnWidth = 500 => fnState.size = "base"
    /\ fnWidth = 1024 => fnState.size = "lg"

C22_Witness == fnWidth = 1366 /\ fnState.size = "xl" /\ fnState.width = 1366

(***************************************************************************)
(* CardNav: the visibility flag against the logical open state             *)
(***************************************************************************)
\* a step in which the timeline starts to play forward
StartsPlaying ==
    /\ timeline'.defined /\ timeline'.alive
    /\ ~timeline'.paused /\ ~timeline'.reversed
    /\ timeline.paused \/ timeline.reversed \/ ~timeline.alive

\* C24: in the mounted card, whenever the logical open state is true the
\* visibility flag isExpanded is true, and isExpanded is already true in the
\* state in which the timeline starts to play forward (first opening, reopening
\* during a closing animation, target-height change while open).
C24_OpenImpliesExpanded ==
    /\ []((navPhase = "mounted" /\ LogicalOpen) => isExpanded)
    /\ [][StartsPlaying => isExpanded']_vars

\* the card was reopened while its closing animation was under way
C24_Witness ==
    /\ navRevision = "ui" /\ navPhase = "mounted" /\ navLastOp = "toggle"
    /\ isOpen /\ isExpanded
    /\ timeline.time \in 1..(TimelineSteps - 1)
    /\ ~timeline.reversed /\ ~timeline.paused

\* C28: in the mounted card, whenever the logical open state is false and no
\* timeline animation is running, isExpanded is false; this includes the close
\* whose reverse animation the resize effect interrupted.
C28_ClosedAndIdleIsCollapsed ==
    (navRevision = "ui" /\ navPhase = "mounted" /\ ~isOpen /\ ~Running(timeline))
        => ~isExpanded

(***************************************************************************)
(* CardNav: the memoised mobile height                                     *)
(***************************************************************************)
\* C25: the content element reference is assigned once, at render, and the
\* height measured then stays the memo's value through every later step:
\* reflows after a viewport resize, breakpoint changes and toggles leave it
\* unchanged even when the element's scrollHeight has changed; on md and above
\* the target height, and the height the timeline animates to, is 260.
C25_MobileHeightMemoised ==
    /\ [][contentHeight' = contentHeight]_vars
    /\ [](mobileHeightMemo({"size", "breakpoint", "isOpen"}, contentHeight, scrollHeight)
            = contentHeight)
    /\ []((navPhase = "mounted" /\ ~compare(navBreakpoint, "<", "md")) =>
            /\ NavTarget = DESKTOP_HEIGHT
            /\ timeline.target = DESKTOP_HEIGHT)
    /\ []((navPhase = "mounted" /\ compare(navBreakpoint, "<", "md")) =>
            timeline.target = mobileHeight(contentHeight))

\* the content has reflowed since it was measured and the card, on a mobile
\* breakpoint, still animates to the height measured first
C25_Witness ==
    /\ navPhase = "mounted" /\ navLastOp = "reflow"
    /\ scrollHeight = 300 /\ contentHeight = 136
    /\ navBreakpoint = "sm"
    /\ timeline.target = mobileHeight(136)

(***************************************************************************)
(* BgController: live ScrollTriggers against the registry                  *)
(***************************************************************************)
LiveElements == {st.trigger : st \in scrollTriggers}

\* C27: once the pending rebuild has run, the live ScrollTriggers are exactly
\* one per registered section; a rebuild creates triggers only when every
\* trigger of an earlier rebuild has been killed; after the controller is
\* disposed no trigger is live and no rebuild is pending.
C27_TriggersMatchRegistry ==
    /\ []((bgPhase = "mounted" /\ bgTimers = {}) =>
            /\ LiveElements = Registered(triggers)
            /\ Cardinality(scrollTriggers) = Len(triggers))
    /\ [][(scrollTriggers' \ scrollTriggers # {}) => scrollTriggers = {}]_vars
    /\ [](bgPhase = "disposed" => scrollTriggers = {} /\ bgTimers = {})

\* sections 3 and 1 are registered, in this order, a rebuild covering two or
\* more registry changes has run and two triggers are live
C27_Witness ==
    /\ bgPhase = "mounted" /\ bgTimers = {} /\ rebuildsSince = 1 /\ coalesced = 2
    /\ Len(triggers) = 2 /\ triggers[1].element = 3 /\ triggers[2].element = 1
    /\ LiveElements = {1, 3} /\ Cardinality(scrollTriggers) = 2

(***************************************************************************)
(* cool-morph-cards.tsx: the morphing Card and its toggle()                 *)
(***************************************************************************)
MaxToggles == 3

\* isOpen accessor: the prop if provided, otherwise the internal signal
cardIsOpen(hasIsOpen, propIsOpen, internal) ==
    IF hasIsOpen THEN propIsOpen ELSE internal

\* toggle(), step 2 "Update State": the handler if there is one, otherwise the
\* internal signal
updateState(hasIsOpen, hasOnOpenChange, internal, notified, nextState) ==
    IF hasOnOpenChange
    THEN [internalOpen |-> internal,
          notified |-> IF nextState THEN "true" ELSE "false"]
    ELSE [internalOpen |-> nextState, notified |-> notified]

McInit ==
    /\ mcHasIsOpen \in BOOLEAN
    /\ mcPropIsOpen \in (IF mcHasIsOpen THEN BOOLEAN ELSE {FALSE})
    /\ mcHasOnOpenChange \in BOOLEAN
    /\ mcInternalOpen = FALSE
    /\ mcContainerRef = FALSE
    /\ mcFrames = 0
    /\ mcNotified = "none"
    /\ mcPhase = "created"
    /\ mcToggles = 0
    /\ FnIdle /\ DevIdle /\ NavIdle /\ BgIdle /\ SbIdle /\ LpIdle /\ TiltIdle

\* the Card's JSX is rendered: the ref is assigned
McMount ==
    /\ mcPhase = "created"
    /\ mcPhase' = "mounted"
    /\ mcContainerRef' = TRUE
    /\ UNCHANGED <<mcHasIsOpen, mcPropIsOpen, mcHasOnOpenChange, mcInternalOpen,
                   mcFrames, mcNotified, mcToggles>>
    /\ UNCHANGED notMc

\* toggle(), called through the context by CardHeader or the close button;
\* parentFollows: the owner of a supplied isOpen applies what onOpenChange
\* hands it
McToggle(parentFollows) ==
    /\ mcPhase # "unmounted"
    /\ mcToggles < MaxToggles
    /\ mcToggles' = mcToggles + 1
    /\ parentFollows => (mcHasIsOpen /\ mcHasOnOpenChange)
    /\ LET nextState == ~cardIsOpen(mcHasIsOpen, mcPropIsOpen, mcInternalOpen)
       IN IF ~mcContainerRef
          THEN UNCHANGED <<mcInternalOpen, mcNotified, mcPropIsOpen, mcFrames>>
          ELSE LET u == updateState(mcHasIsOpen, mcHasOnOpenChange,
                                    mcInternalOpen, mcNotified, nextState)
               IN /\ mcInternalOpen' = u.internalOpen
                  /\ mcNotified' = u.notified
                  /\ mcPropIsOpen' = IF parentFollows THEN nextState ELSE mcPropIsOpen
                  /\ mcFrames' = mcFrames + 1
    /\ UNCHANGED <<mcHasIsOpen, mcHasOnOpenChange, mcContainerRef, mcPhase>>
    /\ UNCHANGED notMc

\* the owner of a supplied isOpen changes it
McSetIsOpen(v) ==
    /\ mcPhase = "mounted" /\ mcHasIsOpen /\ v # mcPropIsOpen
    /\ mcPropIsOpen' = v
    /\ UNCHANGED <<mcHasIsOpen, mcHasOnOpenChange, mcInternalOpen, mcContainerRef,
                   mcFrames, mcNotified, mcPhase, mcToggles>>
    /\ UNCHANGED notMc

\* the requestAnimationFrame callback of a toggle(): Flip.from(state, ...)
McFrame ==
    /\ mcFrames > 0
    /\ mcFrames' = mcFrames - 1
    /\ UNCHANGED <<mcHasIsOpen, mcPropIsOpen, mcHasOnOpenChange, mcInternalOpen,
                   mcContainerRef, mcNotified, mcPhase, mcToggles>>
    /\ UNCHANGED notMc

\* the Card is removed; `let containerRef` keeps the detached element
McUnmount ==
    /\ mcPhase = "mounted"
    /\ mcPhase' = "unmounted"
    /\ UNCHANGED <<mcHasIsOpen, mcPropIsOpen, mcHasOnOpenChange, mcInternalOpen,
                   mcContainerRef, mcFrames, mcNotified, mcToggles>>
    /\ UNCHANGED notMc

McNext ==
    \/ McMount
    \/ \E f \in BOOLEAN : McToggle(f)
    \/ \E v \in BOOLEAN : McSetIsOpen(v)
    \/ McFrame
    \/ McUnmount

McSpec == McInit /\ [][McNext]_vars

McTypeOK ==
    /\ mcHasIsOpen \in BOOLEAN /\ mcPropIsOpen \in BOOLEAN
    /\ mcHasOnOpenChange \in BOOLEAN /\ mcInternalOpen \in BOOLEAN
    /\ mcContainerRef \in BOOLEAN
    /\ mcFrames \in 0..MaxToggles /\ mcToggles \in 0..MaxToggles
    /\ mcNotified \in {"none", "true", "false"}
    /\ mcPhase \in {"created", "mounted", "unmounted"}

mcIsOpen == cardIsOpen(mcHasIsOpen, mcPropIsOpen, mcInternalOpen)

\* C29: without an isOpen prop every toggle() call with the container mounted
\* inverts isOpen(), with or without an onOpenChange handler; with an isOpen
\* prop toggle() leaves the internal signal alone and isOpen() is the prop.
C29_ToggleInvertsUncontrolled ==
    /\ [][(mcToggles' # mcToggles /\ ~mcHasIsOpen /\ mcContainerRef)
            => mcIsOpen' = ~mcIsOpen]_vars
    /\ [][(mcToggles' # mcToggles /\ mcHasIsOpen)
            => mcInternalOpen' = mcInternalOpen]_vars
    /\ [](mcHasIsOpen => mcIsOpen = mcPropIsOpen)

(***************************************************************************)
(* The animation loop of one initialisation, one callback at a time        *)
(***************************************************************************)
MaxFrames == 4

\* Matter.Runner advances the engine on its own animation-frame callback:
\* once per tick, or as many times as the elapsed time holds fixed steps
RunnerUpdates == {0, 1, 2}

\* how many times the revision's own loop steps the world per execution
StepsInLoop(rev) == IF rev = "matter" THEN 0 ELSE 1

\* what the start-up code requests before it calls the loop: Runner.run
StartRequests(rev) == IF rev = "matter" THEN <<"runner">> ELSE <<>>

LpInit ==
    /\ lpRevision \in SbRevisions
    /\ lpPhase = "built"
    /\ lpRequested = <<>> /\ lpFrameQueue = <<>>
    /\ lpFrames = 0 /\ lpSteps = 0 /\ lpFrameSteps = 0
    /\ lpSynced = 0 /\ lpShown = 0
    /\ FnIdle /\ DevIdle /\ NavIdle /\ BgIdle /\ SbIdle /\ McIdle /\ TiltIdle

\* one execution of syncLoop / loop: the world step the loop makes itself,
\* the transforms written from the bodies as they are then, the next request
RunLoop(queue) ==
    /\ lpSteps' = lpSteps + StepsInLoop(lpRevision)
    /\ lpFrameSteps' = lpFrameSteps + StepsInLoop(lpRevision)
    /\ lpShown' = lpSteps'
    /\ lpSynced' = lpSynced + 1
    /\ lpRequested' = Append(queue, "syncLoop")

\* the end of the initialisation: (Runner.run(runner, engine);) syncLoop()
LoopStart ==
    /\ lpPhase = "built"
    /\ lpPhase' = "running"
    /\ RunLoop(StartRequests(lpRevision))
    /\ UNCHANGED <<lpRevision, lpFrameQueue, lpFrames>>
    /\ UNCHANGED notLp

\* the browser starts an animation frame: the callbacks requested so far run
\* in the order they were requested
BeginFrame ==
    /\ lpPhase = "running" /\ lpFrameQueue = <<>> /\ lpRequested # <<>>
    /\ lpFrames < MaxFrames
    /\ lpFrames' = lpFrames + 1
    /\ lpFrameQueue' = lpRequested
    /\ lpRequested' = <<>>
    /\ lpFrameSteps' = 0
    /\ UNCHANGED <<lpRevision, lpPhase, lpSteps, lpSynced, lpShown>>
    /\ UNCHANGED notLp

\* the frame runs Matter.Runner's callback: it requests the next frame and
\* updates the engine n times
RunnerTick(n) ==
    /\ lpFrameQueue # <<>> /\ Head(lpFrameQueue) = "runner"
    /\ lpFrameQueue' = Tail(lpFrameQueue)
    /\ lpRequested' = Append(lpRequested, "runner")
    /\ lpSteps' = lpSteps + n
    /\ lpFrameSteps' = lpFrameSteps + n
    /\ UNCHANGED <<lpRevision, lpPhase, lpFrames, lpSynced, lpShown>>
    /\ UNCHANGED notLp

\* the frame runs the sandbox's own callback
LoopFrame ==
    /\ lpFrameQueue # <<>> /\ Head(lpFrameQueue) = "syncLoop"
    /\ lpFrameQueue' = Tail(lpFrameQueue)
    /\ RunLoop(lpRequested)
    /\ UNCHANGED <<lpRevision, lpPhase, lpFrames>>
    /\ UNCHANGED notLp

LpNext ==
    \/ LoopStart
    \/ BeginFrame
    \/ \E n \in RunnerUpdates : RunnerTick(n)
    \/ LoopFrame

LpSpec == LpInit /\ [][LpNext]_vars

LpTypeOK ==
    /\ lpRevision \in SbRevisions /\ lpPhase \in {"built", "running"}
    /\ lpFrames \in 0..MaxFrames /\ lpSynced \in 0..(MaxFrames + 1)
    /\ lpSteps \in Nat /\ lpFrameSteps \in Nat /\ lpShown \in Nat
    /\ Len(lpRequested) <= 2 /\ Len(lpFrameQueue) <= 2

\* C21: every execution of the loop writes the transforms after exactly one
\* world step made in the same frame, so the transforms written by the k-th
\* execution reflect the bodies after the k-th step.
C21_StepBeforeSync ==
    /\ [][lpSynced' # lpSynced => (lpFrameSteps' = 1 /\ lpShown' = lpSteps')]_vars
    /\ [](lpShown = lpSynced)

(***************************************************************************)
(* The visual tilt the loop gives one pill.  Rotations are in hundredths   *)
(* of a radian; a product or quotient the code computes in floating point  *)
(* lands on one of the two neighbouring values.                            *)
(***************************************************************************)
\* the revisions whose loop smooths the rotation towards the clamped target
TiltRevisions == {"planck", "rapier", "matter"}

\* body velocities along x the world can report to the loop (m/s, px per
\* step in Matter), slow and fast in both directions
VelocitiesX == {-2000, -9, -2, 0, 2, 9, 2000}

\* rotationSmoothing = 0.1, as the divisor it amounts to
rotationSmoothingInv == 10

\* options.maxVisualRotation: (Math.PI / 180) * 15, in Matter (Math.PI / 180) * 30
maxVisualRotation(rev) == IF rev = "matter" THEN 52 ELSE 26

\* vel.x * tiltFactor in hundredths of a radian: tiltFactor is 0.05 in
\* planck, 0.1 in rapier and p2, 0.005 in Matter
tilt(rev, velX) ==
    CASE rev = "planck" -> velX * 5
      [] rev = "matter" -> (velX * 5) \div 10
      [] OTHER -> velX * 10

\* mutant: the target is not clamped
clamp_none(x, lo, hi) == x

\* Math.max(Math.min(x, hi), lo), Common.clamp(x, lo, hi)
clamp(x, lo, hi) ==
    LET m == IF x < hi THEN x ELSE hi
    IN IF m > lo THEN m ELSE lo

targetRotation(rev, velX) ==
    clamp(tilt(rev, velX), -maxVisualRotation(rev), maxVisualRotation(rev))

\* (target - rotation) * rotationSmoothing: the two integers around the tenth
LerpSteps(d) ==
    {d \div rotationSmoothingInv, -((-d) \div rotationSmoothingInv)}

\* the rotations one execution of the pill loop can leave: p2 writes the
\* target itself, the others move a tenth of the way
NextRotations(rev, rotation, velX) ==
    IF rev \in TiltRevisions
    THEN {rotation + st : st \in LerpSteps(targetRotation(rev, velX) - rotation)}
    ELSE {targetRotation(rev, velX)}

\* planckPills.push({..., rotation: 0}), visual: { currentRotation: 0 }
TiltInit ==
    /\ tiltRevision \in SbRevisions
    /\ pillRotation = 0 /\ pillVelX = 0 /\ tiltSynced = FALSE
    /\ FnIdle /\ DevIdle /\ NavIdle /\ BgIdle /\ SbIdle /\ McIdle /\ LpIdle

\* one pass of the loop over the pill while its body moves at velX
SyncPill(velX) ==
    /\ pillVelX' = velX
    /\ pillRotation' \in NextRotations(tiltRevision, pillRotation, velX)
    /\ tiltSynced' = TRUE
    /\ UNCHANGED tiltRevision
    /\ UNCHANGED notTilt

TiltNext == \E velX \in VelocitiesX : SyncPill(velX)

TiltSpec == TiltInit /\ [][TiltNext]_vars

TiltTypeOK ==
    /\ tiltRevision \in SbRevisions /\ pillRotation \in Int
    /\ pillVelX \in VelocitiesX \cup {0} /\ tiltSynced \in BOOLEAN

\* one pass of a smoothing loop: the target is within the limits and the
\* rotation moves a tenth of the way to it
SmoothedTowardsTarget ==
    LET lim == maxVisualRotation(tiltRevision)
        target == clamp(tilt(tiltRevision, pillVelX'), -lim, lim)
    IN /\ target >= -lim /\ target <= lim
       /\ (pillRotation' - pillRotation) \in LerpSteps(target - pillRotation)

\* C26: the visual rotation starts at 0, never leaves
\* [-maxVisualRotation, +maxVisualRotation], and in the revisions that smooth
\* it each execution of the loop moves it a tenth of the way to the target
\* vel.x * tiltFactor clamped to that interval, whatever velocities the world
\* reports.
C26_RotationWithinBounds ==
    /\ [](~tiltSynced => pillRotation = 0)
    /\ [](/\ pillRotation >= -maxVisualRotation(tiltRevision)
          /\ pillRotation <= maxVisualRotation(tiltRevision))
    /\ [][(tiltRevision \in TiltRevisions) => SmoothedTowardsTarget]_vars

\* a smoothing loop has brought the pill to the limit while its body moves
\* far faster than the limit allows for
C26_Witness ==
    /\ tiltRevision \in TiltRevisions /\ tiltSynced
    /\ pillRotation = maxVisualRotation(tiltRevision)
    /\ tilt(tiltRevision, pillVelX) > maxVisualRotation(tiltRevision)
====
